---------------------------- MODULE Spec2Model ----------------------------
(***************************************************************************)
(* CustomCourseGenerator: the JSON extraction helper parse_json with its   *)
(* repair call json_maker_bot, and the two course pipelines built on it:   *)
(* generate_course_async (src/main.py) and the LangGraph workflow of       *)
(* src/enhanced_coursegen_multiagent.py.                                   *)
(*                                                                         *)
(* A text is a sequence of lexical tokens; the text it stands for is the   *)
(* concatenation of its tokens, each token being written here exactly as   *)
(* it appears in the text:                                                 *)
(*     "~~~json"  "~~~"  "{"  "}"  "["  "]"  "("  ")"  ","  " "            *)
(*     "0"  "1"  "true"  "false"  "null"  "\"\""  "\"x\""  "\"x~~~\""        *)
(*     "Sure!"  and the key tokens  "\"a\":" ...                           *)
(* where ~ stands for the backquote character (U+0060), which a TLA+       *)
(* string cannot hold.  A key token is a member name between double        *)
(* quotes with its colon; a member name is made of letters, digits and     *)
(* underscores, begins with a letter, and is no keyword and no string      *)
(* prefix (b, f, r, u and their pairs) of Python.                          *)
(***************************************************************************)
EXTENDS Integers, Sequences, FiniteSets, TLC

(***************************************************************************)
(* Tokens                                                                  *)
(***************************************************************************)
FenceJson == "~~~json"
Fence     == "~~~"
Ws        == " "
Narrative == "Sure!"
StrEmpty  == "\"\""
StrX      == "\"x\""
StrFence  == "\"x~~~\""

\* the key token of member name k is  "k":
KeyToken(k) == "\"" \o k \o "\":"

IsKeyToken(tok) ==
    /\ Len(tok) >= 3
    /\ SubSeq(tok, 1, 1) = "\""
    /\ SubSeq(tok, Len(tok) - 1, Len(tok)) = "\":"

\* the member name of a key token
KeyOf(tok) == SubSeq(tok, 2, Len(tok) - 2)

StrTokens == {StrEmpty, StrX, StrFence}

\* character i of a text
Ch(t, i) == SubSeq(t, i, i)

\* the end of the run of backquotes, or of other characters, that begins at i
RECURSIVE RunEnd(_, _)
RunEnd(t, i) ==
    IF i < Len(t) /\ (Ch(t, i + 1) = "~") = (Ch(t, i) = "~") THEN RunEnd(t, i + 1) ELSE i

\* the content of a str as pieces: the runs of backquotes and the runs of other
\* characters, in their order ("" has no piece)
RECURSIVE Pieces(_)
Pieces(t) ==
    IF t = "" THEN <<>>
    ELSE <<SubSeq(t, 1, RunEnd(t, 1))>> \o Pieces(SubSeq(t, RunEnd(t, 1) + 1, Len(t)))

\* the content of a string token
StrContent(tok) == Pieces(SubSeq(tok, 2, Len(tok) - 1))

\* the digits
DigitTokens == {"0", "1", "2", "3", "4", "5", "6", "7", "8", "9"}

DigitValue(c) ==
    CASE c = "0" -> 0 [] c = "1" -> 1 [] c = "2" -> 2 [] c = "3" -> 3 [] c = "4" -> 4
      [] c = "5" -> 5 [] c = "6" -> 6 [] c = "7" -> 7 [] c = "8" -> 8 [] c = "9" -> 9

(***************************************************************************)
(* Values: what json.loads and ast.literal_eval return.  One record shape  *)
(* for every Python value: t is the type, n the value of an int (1 and 0   *)
(* for True and False), s the content of a str, map the members of a dict  *)
(* and keys their names in the order of insertion (the order in which      *)
(* Python iterates and writes them), kids the items of a list, tuple or    *)
(* set.  The ints are those of at most nine digits.                        *)
(***************************************************************************)
Val(t, n, s, map, kids, keys) ==
    [t |-> t, n |-> n, s |-> s, map |-> map, kids |-> kids, keys |-> keys]

Num(n)      == Val("int", n, <<>>, <<>>, <<>>, <<>>)
TrueV       == Val("bool", 1, <<>>, <<>>, <<>>, <<>>)
FalseV      == Val("bool", 0, <<>>, <<>>, <<>>, <<>>)
Str(s)      == Val("str", 0, s, <<>>, <<>>, <<>>)
Arr(kids)   == Val("list", 0, <<>>, <<>>, kids, <<>>)
Tuple(kids) == Val("tuple", 0, <<>>, <<>>, kids, <<>>)
SetV(kids)  == Val("set", 0, <<>>, <<>>, kids, <<>>)
\* the dict whose members map were inserted in the order keys
Obj(keys, map) == Val("dict", 0, <<>>, map, <<>>, keys)
NoneV       == Val("NoneType", 0, <<>>, <<>>, <<>>, <<>>)

EmptyDict == Obj(<<>>, <<>>)

\* the members m with v under the name k
Put(m, k, v) == [x \in (DOMAIN m) \cup {k} |-> IF x = k THEN v ELSE m[x]]

\* d[k] = v on a dict: a new member name goes last, a known one keeps its place
PutIn(d, k, v) ==
    Obj(IF k \in DOMAIN d.map THEN d.keys ELSE Append(d.keys, k), Put(d.map, k, v))

\* the names of a sequence of member names
Names(keys) == {keys[n] : n \in 1..Len(keys)}

\* {k: v}
Single(k, v) == Obj(<<k>>, [x \in {k} |-> v])

\* Python truthiness: what `if x` and `not x` test
Truthy(v) ==
    CASE v.t = "int"      -> v.n # 0
      [] v.t = "bool"     -> v.n # 0
      [] v.t = "str"      -> v.s # <<>>
      [] v.t = "dict"     -> DOMAIN v.map # {}
      [] v.t = "NoneType" -> FALSE
      [] OTHER            -> v.kids # <<>>

\* the number of characters of a text given by its pieces
RECURSIVE Chars(_)
Chars(s) == IF s = <<>> THEN 0 ELSE Len(Head(s)) + Chars(Tail(s))

\* the pieces of a text written one after the other
RECURSIVE Concat(_)
Concat(s) ==
    IF s = <<>> THEN ""
    ELSE IF Len(s) = 1 THEN s[1]
    ELSE Concat(SubSeq(s, 1, Len(s) \div 2)) \o Concat(SubSeq(s, Len(s) \div 2 + 1, Len(s)))

\* len(x) for the values that have one
PyLen(v) ==
    CASE v.t = "dict" -> Cardinality(DOMAIN v.map)
      [] v.t = "str"  -> Chars(v.s)
      [] OTHER        -> Len(v.kids)

\* a == b of Python: True == 1 and False == 0, a list is never equal to a tuple,
\* dicts are equal when their members are, in any order, and sets when their
\* items are
RECURSIVE PyEq(_, _)
PyEq(a, b) ==
    IF a.t \in {"int", "bool"} /\ b.t \in {"int", "bool"} THEN a.n = b.n
    ELSE IF a.t # b.t THEN FALSE
    ELSE CASE a.t = "str" -> Concat(a.s) = Concat(b.s)
           [] a.t \in {"list", "tuple"} ->
                  /\ Len(a.kids) = Len(b.kids)
                  /\ \A n \in 1..Len(a.kids) : PyEq(a.kids[n], b.kids[n])
           [] a.t = "set" ->
                  /\ \A n \in 1..Len(a.kids) : \E m \in 1..Len(b.kids) : PyEq(a.kids[n], b.kids[m])
                  /\ \A m \in 1..Len(b.kids) : \E n \in 1..Len(a.kids) : PyEq(a.kids[n], b.kids[m])
           [] a.t = "dict" ->
                  /\ DOMAIN a.map = DOMAIN b.map
                  /\ \A k \in DOMAIN a.map : PyEq(a.map[k], b.map[k])
           [] OTHER -> a = b

(***************************************************************************)
(* json.loads: the strict parser.  A result is [ok, val, pos]: pos is the  *)
(* index of the first token not consumed.                                  *)
(***************************************************************************)
POk(v, p) == [ok |-> TRUE, val |-> v, pos |-> p]
PFail     == [ok |-> FALSE, val |-> NoneV, pos |-> 0]

RECURSIVE SkipWs(_, _)
SkipWs(s, i) == IF i <= Len(s) /\ s[i] = Ws THEN SkipWs(s, i + 1) ELSE i

\* the end of a run of digits starting at i
RECURSIVE DigitsEnd(_, _)
DigitsEnd(s, i) == IF i <= Len(s) /\ s[i] \in DigitTokens THEN DigitsEnd(s, i + 1) ELSE i

\* the number written by the digits s[i] .. s[j - 1] behind the digits of acc
RECURSIVE IntOf(_, _, _, _)
IntOf(s, i, j, acc) == IF i >= j THEN acc ELSE IntOf(s, i + 1, j, 10 * acc + DigitValue(s[i]))

RECURSIVE JValue(_, _)
RECURSIVE JArrayItems(_, _, _)
RECURSIVE JObjectMembers(_, _, _)

JArrayItems(s, i, acc) ==
    LET r == JValue(s, i) IN
    IF ~r.ok THEN PFail
    ELSE LET j == SkipWs(s, r.pos) IN
         IF j > Len(s) THEN PFail
         ELSE IF s[j] = "," THEN JArrayItems(s, j + 1, Append(acc, r.val))
         ELSE IF s[j] = "]" THEN POk(Arr(Append(acc, r.val)), j + 1)
         ELSE PFail

JObjectMembers(s, i, d) ==
    LET j == SkipWs(s, i) IN
    IF j > Len(s) \/ ~IsKeyToken(s[j]) THEN PFail
    ELSE LET r == JValue(s, j + 1) IN
         IF ~r.ok THEN PFail
         ELSE LET k == SkipWs(s, r.pos) IN
              IF k > Len(s) THEN PFail
              ELSE IF s[k] = "," THEN JObjectMembers(s, k + 1, PutIn(d, KeyOf(s[j]), r.val))
              ELSE IF s[k] = "}" THEN POk(PutIn(d, KeyOf(s[j]), r.val), k + 1)
              ELSE PFail

JValue(s, i) ==
    LET j == SkipWs(s, i) IN
    IF j > Len(s) THEN PFail
    ELSE IF s[j] = "0" THEN POk(Num(0), j + 1)
    ELSE IF s[j] \in DigitTokens THEN POk(Num(IntOf(s, j, DigitsEnd(s, j), 0)), DigitsEnd(s, j))
    ELSE IF s[j] = "true" THEN POk(TrueV, j + 1)
    ELSE IF s[j] = "false" THEN POk(FalseV, j + 1)
    ELSE IF s[j] = "null" THEN POk(NoneV, j + 1)
    ELSE IF s[j] \in StrTokens THEN POk(Str(StrContent(s[j])), j + 1)
    ELSE IF s[j] = "[" THEN
         LET k == SkipWs(s, j + 1) IN
         IF k <= Len(s) /\ s[k] = "]" THEN POk(Arr(<<>>), k + 1)
         ELSE JArrayItems(s, k, <<>>)
    ELSE IF s[j] = "{" THEN
         LET k == SkipWs(s, j + 1) IN
         IF k <= Len(s) /\ s[k] = "}" THEN POk(EmptyDict, k + 1)
         ELSE JObjectMembers(s, k, EmptyDict)
    ELSE PFail

\* json.loads(text): ok = FALSE is json.JSONDecodeError
json_loads(s) ==
    LET r == JValue(s, 1) IN
    IF r.ok /\ SkipWs(s, r.pos) > Len(s) THEN r ELSE PFail

(***************************************************************************)
(* text.replace("~~~json", "").replace("~~~", ""): every fence marker is   *)
(* deleted, those inside string literals included.                         *)
(***************************************************************************)
Unfenced(p) == IF p = StrFence THEN StrX ELSE p

strip_fences(s) ==
    LET kept == SelectSeq(s, LAMBDA p : p \notin {FenceJson, Fence})
    IN  [i \in 1..Len(kept) |-> Unfenced(kept[i])]

\* str.strip(): leading and trailing whitespace removed
RECURSIVE lstrip(_)
lstrip(s) == IF s # <<>> /\ Head(s) = Ws THEN lstrip(Tail(s)) ELSE s

RECURSIVE rstrip(_)
rstrip(s) == IF s # <<>> /\ s[Len(s)] = Ws THEN rstrip(SubSeq(s, 1, Len(s) - 1)) ELSE s

strip(s) == rstrip(lstrip(s))

(***************************************************************************)
(* re.search(r'(\{.*\})', text, re.DOTALL): the span from the first "{"    *)
(* to the last "}" of the text; found = FALSE when there is no match.      *)
(***************************************************************************)
Positions(s, tok) == {i \in 1..Len(s) : s[i] = tok}

SetMin(S) == CHOOSE x \in S : \A y \in S : x <= y
SetMax(S) == CHOOSE x \in S : \A y \in S : x >= y

re_search(s) ==
    LET opens  == Positions(s, "{")
        closes == Positions(s, "}")
    IN  IF opens # {} /\ closes # {} /\ SetMin(opens) < SetMax(closes)
        THEN [found |-> TRUE, group |-> SubSeq(s, SetMin(opens), SetMax(closes))]
        ELSE [found |-> FALSE, group |-> <<>>]

(***************************************************************************)
(* Exceptions: the class and str(e).                                       *)
(***************************************************************************)
Exc(type, msg) == [type |-> type, msg |-> msg]
NoExc == Exc("none", "")

(***************************************************************************)
(* ast.literal_eval(text) is _convert(ast.parse(text.lstrip(" \t"),        *)
(* mode="eval").body): Python's tokenizer, Python's parser for one         *)
(* expression, and the conversion of the parsed tree.  It differs from     *)
(* json.loads: true, false and null are names, which parse and then fail   *)
(* the conversion (ValueError); adjacent string literals concatenate; a    *)
(* trailing comma is allowed; items separated by commas make a tuple, in   *)
(* parentheses or not; braces around items without member names make a     *)
(* set, whose items must be hashable (TypeError); an expression followed   *)
(* by ( arguments ) is a call and one followed by [ slices ] a subscript   *)
(* (ValueError).                                                           *)
(***************************************************************************)
SyntaxErr(msg) == Exc("SyntaxError", msg \o " (<unknown>, line 1)")

\* a node the conversion refuses: the address in the text of the exception differs
\* from run to run and is written 0x..
Malformed(node) ==
    Exc("ValueError", "malformed node or string on line 1: <ast." \o node \o " object at 0x..>")

Unhashable(v) == Exc("TypeError", "unhashable type: '" \o v.t \o "'")

(***************************************************************************)
(* The tokenizer reads the text character by character.  A token of Python *)
(* is [k, n, s, level]: k its kind (NAME, NUMBER, STRING, NEWLINE or the   *)
(* operator itself), n the value of a NUMBER, s the content of a STRING,   *)
(* level the number of brackets open behind it.  A name is a run of        *)
(* letters, digits and underscores; a number is a run of digits, which     *)
(* must not begin with 0 unless it is all zeros and must not be followed   *)
(* by a letter; a string runs from its quote to the next quote, and from   *)
(* three quotes to the next three.  The backquote (kind "~") and the mark  *)
(* of exclamation are operators no expression holds.                       *)
(***************************************************************************)
PyToken(k, n, s, level) == [k |-> k, n |-> n, s |-> s, level |-> level]

Op(k, level) == PyToken(k, 0, <<>>, level)

Letters ==
    {"a", "b", "c", "d", "e", "f", "g", "h", "i", "j", "k", "l", "m", "n", "o", "p", "q",
     "r", "s", "t", "u", "v", "w", "x", "y", "z", "A", "B", "C", "D", "E", "F", "G", "H",
     "I", "J", "K", "L", "M", "N", "O", "P", "Q", "R", "S", "T", "U", "V", "W", "X", "Y",
     "Z", "_"}

Openers == {"(", "[", "{"}
Closers == {")", "]", "}"}

Closing(o) == CASE o = "(" -> ")" [] o = "[" -> "]" [] OTHER -> "}"

Quote == "\""
TripleQuote == "\"\"\""

LeadingZeros ==
    "leading zeros in decimal integer literals are not permitted; use an 0o prefix for octal integers"

\* the tokens read, the brackets left open at the end of the text, and the
\* tokenizer's own error if it has one
Tokenized(toks, open) == [exc |-> NoExc, toks |-> toks, open |-> open]
TokenizerError(msg)   == [exc |-> SyntaxErr(msg), toks |-> <<>>, open |-> <<>>]

\* one token read: the token, the index behind it and the brackets open behind it
TokenRead(tok, end, stack) == [exc |-> NoExc, tok |-> tok, end |-> end, stack |-> stack]
TokenError(msg) == [exc |-> SyntaxErr(msg), tok |-> Op("", 0), end |-> 0, stack |-> <<>>]

\* the end of the run of characters of S that begins at i: the index behind it
SpanEnd(t, i, S) ==
    IF i > Len(t) THEN i
    ELSE CHOOSE e \in i..(Len(t) + 1) :
             /\ \A k \in i..(e - 1) : Ch(t, k) \in S
             /\ e > Len(t) \/ Ch(t, e) \notin S

\* where q is found in t from i on; 0: nowhere
Find(t, q, i) ==
    LET found == {k \in i..(Len(t) - Len(q) + 1) : SubSeq(t, k, k + Len(q) - 1) = q}
    IN  IF found = {} THEN 0 ELSE CHOOSE k \in found : \A m \in found : k <= m

\* the number the digits d write, behind the digits of acc
RECURSIVE ValueOf(_, _)
ValueOf(d, acc) ==
    IF d = "" THEN acc ELSE ValueOf(SubSeq(d, 2, Len(d)), 10 * acc + DigitValue(Ch(d, 1)))

\* the string literal whose quotes open at j and close at e, q quotes each
StringToken(t, j, e, q, level) == PyToken("STRING", 0, <<SubSeq(t, j + q, e - 1)>>, level)

\* a number begins at j and ends in front of e
Number(t, j, e, stack) ==
    IF Ch(t, j) = "0" /\ SpanEnd(t, j, {"0"}) < e THEN TokenError(LeadingZeros)
    ELSE IF e <= Len(t) /\ Ch(t, e) \in Letters THEN TokenError("invalid decimal literal")
    ELSE TokenRead(PyToken("NUMBER", ValueOf(SubSeq(t, j, e - 1), 0), <<>>, Len(stack)), e,
                   stack)

\* a string opens at j with q quotes and closes at e (0: it does not close)
String(t, j, e, q, stack) ==
    IF e = 0
    THEN TokenError(IF q = 3
                    THEN "unterminated triple-quoted string literal (detected at line 1)"
                    ELSE "unterminated string literal (detected at line 1)")
    ELSE TokenRead(StringToken(t, j, e, q, Len(stack)), e + q, stack)

\* the character c at j is an operator
Operator(t, j, c, stack) ==
    IF c \in Openers THEN TokenRead(Op(c, Len(stack) + 1), j + 1, Append(stack, c))
    ELSE IF c \in Closers THEN
         IF stack = <<>> THEN TokenError("unmatched '" \o c \o "'")
         ELSE IF Closing(stack[Len(stack)]) # c
         THEN TokenError("closing parenthesis '" \o c
                         \o "' does not match opening parenthesis '"
                         \o stack[Len(stack)] \o "'")
         ELSE TokenRead(Op(c, Len(stack) - 1), j + 1, SubSeq(stack, 1, Len(stack) - 1))
    ELSE TokenRead(Op(c, Len(stack)), j + 1, stack)

\* the token that begins at j, where no space is
TokenAt(t, j, stack) ==
    IF Ch(t, j) \in Letters
    THEN TokenRead(PyToken("NAME", 0, <<>>, Len(stack)),
                   SpanEnd(t, j, Letters \cup DigitTokens), stack)
    ELSE IF Ch(t, j) \in DigitTokens
    THEN Number(t, j, SpanEnd(t, j, DigitTokens), stack)
    ELSE IF Ch(t, j) = Quote
    THEN IF j + 2 <= Len(t) /\ SubSeq(t, j, j + 2) = TripleQuote
         THEN String(t, j, Find(t, TripleQuote, j + 3), 3, stack)
         ELSE String(t, j, Find(t, Quote, j + 1), 1, stack)
    ELSE Operator(t, j, Ch(t, j), stack)

\* the tokens of the text t from character i on, behind the tokens out; read is
\* the token at i, or the end of the text
RECURSIVE tokenize(_, _, _, _)
tokenize(t, i, out, stack) ==
    LET j    == SpanEnd(t, i, {Ws})
        read == TokenAt(t, j, stack)
    IN  CASE j > Len(t) ->
               Tokenized(IF stack = <<>> THEN Append(out, Op("NEWLINE", 0)) ELSE out, stack)
          [] j <= Len(t) /\ read.exc # NoExc -> [exc |-> read.exc, toks |-> <<>>, open |-> <<>>]
          [] OTHER -> tokenize(t, read.end, out \o <<read.tok>>, read.stack)

\* the kind of token i; EOF behind the last token: the text ended inside brackets
Kind(T, i) == IF i <= Len(T) THEN T[i].k ELSE "EOF"

(***************************************************************************)
(* The tree of the parser (the classes of module ast): t is the class,     *)
(* val the value of a Constant, kids the elts of a List, Tuple or Set and  *)
(* the <<key, value>> pairs of a Dict.                                     *)
(***************************************************************************)
Node(t, val, kids) == [t |-> t, val |-> val, kids |-> kids]

Constant(v) == Node("Constant", v, <<>>)
Other(t)  == Node(t, NoneV, <<>>)

(***************************************************************************)
(* The parser (CPython's PEG grammar for mode="eval", the rules that the   *)
(* tokens above can reach).  It runs twice over the tokens: the first pass *)
(* without the invalid_ rules, and when that fails a second pass with them *)
(* to find a better message.  A state st of a pass is [e, d, on, err]: e   *)
(* and d are the memo tables of the rules expression and disjunction (the  *)
(* result found at a token the first time is the result at that token for  *)
(* the rest of the pass), on says whether the invalid_ rules are called,   *)
(* err is the error raised ("" none, "eof" the tokenizer was asked for a   *)
(* token behind the end of a text with open brackets); the first error     *)
(* ends the pass.  A result is [st, ok, pos, node]: pos is the first token *)
(* not consumed.                                                           *)
(***************************************************************************)
NewState(on) == [e |-> <<>>, d |-> <<>>, on |-> on, err |-> ""]

ROk(st, pos, node) == [st |-> st, ok |-> TRUE, pos |-> pos, node |-> node]
RFail(st)          == [st |-> st, ok |-> FALSE, pos |-> 0, node |-> Other("none")]

\* RAISE_SYNTAX_ERROR: the first error stays
Error(st, msg) == IF st.err # "" THEN st ELSE [st EXCEPT !.err = msg]

ForgotComma == "invalid syntax. Perhaps you forgot a comma?"
ColonExpected == "':' expected after dictionary key"
ValueExpected == "expression expected after dictionary key and ':'"

\* what a memo table keeps of a result, and the result it gives back
Kept(r) == [ok |-> r.ok, pos |-> r.pos, node |-> r.node]
Again(st, k) == [st |-> st, ok |-> k.ok, pos |-> k.pos, node |-> k.node]

RECURSIVE expression(_, _, _)
RECURSIVE disjunction(_, _, _)
RECURSIVE primary_loop(_, _)
RECURSIVE atom(_, _, _)
RECURSIVE gather(_, _, _, _, _)
RECURSIVE gather_loop(_, _, _, _)
RECURSIVE invalid_expression(_, _, _)
RECURSIVE invalid_legacy_expression(_, _, _)
RECURSIVE invalid_double_starred_kvpairs(_, _, _)
RECURSIVE kvpair(_, _, _)
RECURSIVE slice(_, _, _)
RECURSIVE slices(_, _, _)

\* one element of a comma-separated sequence
Element(T, st, p, rule) ==
    CASE rule = "kvpair" -> kvpair(T, st, p)
      [] rule = "slice"  -> slice(T, st, p)
      [] OTHER           -> expression(T, st, p)

\* ','.rule+ behind the elements acc, the element next having been tried behind
\* the comma at acc.pos; trailing: a last comma is taken too
GatherNext(T, rule, trailing, acc, next) ==
    IF next.ok
    THEN gather_loop(T, rule, trailing, ROk(next.st, next.pos, Append(acc.node, next.node)))
    ELSE ROk(next.st, IF trailing THEN acc.pos + 1 ELSE acc.pos, acc.node)

gather_loop(T, rule, trailing, acc) ==
    IF Kind(T, acc.pos) = ","
    THEN GatherNext(T, rule, trailing, acc, Element(T, acc.st, acc.pos + 1, rule))
    ELSE acc

GatherFirst(T, rule, trailing, first) ==
    IF first.ok THEN gather_loop(T, rule, trailing, ROk(first.st, first.pos, <<first.node>>))
    ELSE RFail(first.st)

\* ','.rule+ [','] from token p on; node is the sequence of the elements' nodes
gather(T, st, p, rule, trailing) == GatherFirst(T, rule, trailing, Element(T, st, p, rule))

\* strings: STRING+, the literals concatenated
RECURSIVE strings(_, _, _, _)
strings(T, st, j, acc) ==
    IF Kind(T, j) = "STRING" THEN strings(T, st, j + 1, acc \o T[j].s)
    ELSE ROk(st, j, Constant(Str(Pieces(Concat(acc)))))

\* the end of an optional sequence g that starts at token p
EndOf(g, p) == IF g.ok THEN g.pos ELSE p

Items(g) == IF g.ok THEN g.node ELSE <<>>

\* tuple: '(' [star_named_expression ',' [star_named_expressions]] ')', the rest g
\* behind the first element a and its comma
TupleAfter(T, a, g) ==
    IF Kind(T, EndOf(g, a.pos + 1)) = ")"
    THEN ROk(g.st, EndOf(g, a.pos + 1) + 1, Node("Tuple", NoneV, <<a.node>> \o Items(g)))
    ELSE RFail(g.st)

\* '(' at token i: tuple | group, a the expression tried behind the parenthesis
ParenAfter(T, i, a) ==
    IF a.ok /\ Kind(T, a.pos) = ","
    THEN TupleAfter(T, a, gather(T, a.st, a.pos + 1, "expression", TRUE))
    ELSE IF a.ok /\ Kind(T, a.pos) = ")" THEN ROk(a.st, a.pos + 1, a.node)
    ELSE IF ~a.ok /\ Kind(T, i + 1) = ")" THEN ROk(a.st, i + 2, Node("Tuple", NoneV, <<>>))
    ELSE RFail(a.st)

\* list: '[' [star_named_expressions] ']'
ListAfter(T, i, g) ==
    IF Kind(T, EndOf(g, i + 1)) = "]"
    THEN ROk(g.st, EndOf(g, i + 1) + 1, Node("List", NoneV, Items(g)))
    ELSE RFail(g.st)

\* set: '{' star_named_expressions '}'
SetAfter(T, g) ==
    IF g.ok /\ Kind(T, g.pos) = "}" THEN ROk(g.st, g.pos + 1, Node("Set", NoneV, g.node))
    ELSE RFail(g.st)

\* '{' at token i: dict | set.  dict is '{' [double_starred_kvpairs] '}' or
\* '{' invalid_double_starred_kvpairs '}', an alternative that both passes take
BraceAfter(T, i, g) ==
    IF Kind(T, EndOf(g, i + 1)) = "}"
    THEN ROk(g.st, EndOf(g, i + 1) + 1, Node("Dict", NoneV, Items(g)))
    ELSE SetAfter(T, gather(T, invalid_double_starred_kvpairs(T, g.st, i + 1), i + 1,
                            "expression", TRUE))

atom(T, st, i) ==
    IF st.err # "" THEN RFail(st)
    ELSE IF Kind(T, i) = "EOF" THEN RFail(Error(st, "eof"))
    ELSE IF Kind(T, i) = "NAME" THEN ROk(st, i + 1, Other("Name"))
    ELSE IF Kind(T, i) = "NUMBER" THEN ROk(st, i + 1, Constant(Num(T[i].n)))
    ELSE IF Kind(T, i) = "STRING" THEN strings(T, st, i, <<>>)
    ELSE IF Kind(T, i) = "(" THEN ParenAfter(T, i, expression(T, st, i + 1))
    ELSE IF Kind(T, i) = "[" THEN ListAfter(T, i, gather(T, st, i + 1, "expression", TRUE))
    ELSE IF Kind(T, i) = "{" THEN BraceAfter(T, i, gather(T, st, i + 1, "kvpair", TRUE))
    ELSE RFail(st)

\* kvpair: expression ':' expression
KvValue(k, v) == IF v.ok THEN ROk(v.st, v.pos, <<k.node, v.node>>) ELSE RFail(v.st)

KvKey(T, k) ==
    IF k.ok /\ Kind(T, k.pos) = ":" THEN KvValue(k, expression(T, k.st, k.pos + 1))
    ELSE RFail(k.st)

kvpair(T, st, p) == KvKey(T, expression(T, st, p))

\* invalid_kvpair: a the expression behind the comma that follows the members
invalid_kvpair(T, a) ==
    IF ~a.ok THEN a.st
    ELSE IF Kind(T, a.pos) # ":" THEN Error(a.st, ColonExpected)
    ELSE IF Kind(T, a.pos + 1) \in {"}", ","} THEN Error(a.st, ValueExpected)
    ELSE a.st

\* expression ':' &('}'|',')
EmptyValue(T, a) ==
    IF a.ok /\ Kind(T, a.pos) = ":" /\ Kind(T, a.pos + 1) \in {"}", ","}
    THEN Error(a.st, ValueExpected)
    ELSE a.st

\* ','.double_starred_kvpair+ ',' invalid_kvpair | expression ':' &('}'|','), g the
\* members read from token p on
MembersThen(T, p, g) ==
    IF g.ok /\ Kind(T, g.pos) = ","
    THEN EmptyValue(T, expression(T, invalid_kvpair(T, expression(T, g.st, g.pos + 1)), p))
    ELSE EmptyValue(T, expression(T, g.st, p))

\* the state behind the rule, which never matches
invalid_double_starred_kvpairs(T, st, p) ==
    MembersThen(T, p, gather(T, st, p, "kvpair", FALSE))

\* slice: [expression] ':' [expression] [':' [expression]] | named_expression
SliceStep(q, e) == ROk(e.st, EndOf(e, q), Other("Slice"))

SliceUpper(T, q, e) ==
    IF Kind(T, EndOf(e, q)) = ":"
    THEN SliceStep(EndOf(e, q) + 1, expression(T, e.st, EndOf(e, q) + 1))
    ELSE ROk(e.st, EndOf(e, q), Other("Slice"))

SliceLower(T, p, e) ==
    IF Kind(T, EndOf(e, p)) = ":"
    THEN SliceUpper(T, EndOf(e, p) + 1, expression(T, e.st, EndOf(e, p) + 1))
    ELSE e

slice(T, st, p) == SliceLower(T, p, expression(T, st, p))

\* slices: slice !',' | ','.slice+ [',']
SlicesAfter(T, p, r) ==
    IF r.ok /\ Kind(T, r.pos) # "," THEN r ELSE gather(T, r.st, p, "slice", TRUE)

slices(T, st, p) == SlicesAfter(T, p, slice(T, st, p))

\* primary '(' [arguments] ')'
CallAfter(T, r, g) ==
    IF Kind(T, EndOf(g, r.pos + 1)) = ")"
    THEN primary_loop(T, ROk(g.st, EndOf(g, r.pos + 1) + 1, Other("Call")))
    ELSE [r EXCEPT !.st = g.st]

\* primary '[' slices ']'
SubscriptAfter(T, r, g) ==
    IF g.ok /\ Kind(T, g.pos) = "]"
    THEN primary_loop(T, ROk(g.st, g.pos + 1, Other("Subscript")))
    ELSE [r EXCEPT !.st = g.st]

\* primary: what follows the primary r.  Behind a primary the second pass tries
\* invalid_comprehension, which reads the items behind a brace
primary_loop(T, r) ==
    IF ~r.ok \/ r.st.err # "" THEN r
    ELSE IF Kind(T, r.pos) = "EOF" THEN RFail(Error(r.st, "eof"))
    ELSE IF Kind(T, r.pos) = "(" THEN CallAfter(T, r, gather(T, r.st, r.pos + 1, "expression", TRUE))
    ELSE IF Kind(T, r.pos) = "[" THEN SubscriptAfter(T, r, slices(T, r.st, r.pos + 1))
    ELSE IF Kind(T, r.pos) = "{" /\ r.st.on
    THEN [r EXCEPT !.st = gather(T, r.st, r.pos + 1, "expression", TRUE).st]
    ELSE r

primary(T, st, i) == primary_loop(T, atom(T, st, i))

DisjunctionKept(i, r) == [r EXCEPT !.st.d = (i :> Kept(r)) @@ @]

\* disjunction (memo): with the operators of the tokens above, a primary
disjunction(T, st, i) ==
    IF st.err # "" THEN RFail(st)
    ELSE IF i \in DOMAIN st.d THEN Again(st, st.d[i])
    ELSE DisjunctionKept(i, primary(T, st, i))

\* expression_without_invalid: the invalid_ rules are not called inside
Restored(on, r) == [r EXCEPT !.st.on = on]

expression_without_invalid(T, st, i) ==
    Restored(st.on, disjunction(T, [st EXCEPT !.on = FALSE], i))

\* invalid_expression: !(NAME STRING) a=disjunction b=expression_without_invalid
\* raises unless b ends outside every bracket
CommaRaise(T, b) ==
    IF b.ok /\ T[b.pos - 1].level # 0 THEN Error(b.st, ForgotComma) ELSE b.st

CommaAfter(T, a) ==
    IF a.ok THEN CommaRaise(T, expression_without_invalid(T, a.st, a.pos)) ELSE a.st

invalid_expression(T, st, i) ==
    IF Kind(T, i) = "NAME" /\ Kind(T, i + 1) = "STRING" THEN st
    ELSE CommaAfter(T, disjunction(T, st, i))

\* invalid_legacy_expression: NAME !'(' star_expressions, which raises for the
\* names print and exec only
invalid_legacy_expression(T, st, i) ==
    IF st.err = "" /\ Kind(T, i) = "NAME" /\ Kind(T, i + 1) # "("
    THEN gather(T, st, i + 1, "expression", TRUE).st
    ELSE st

ExpressionKept(i, r) == [r EXCEPT !.st.e = (i :> Kept(r)) @@ @]

\* expression (memo): invalid_expression | invalid_legacy_expression | disjunction
expression(T, st, i) ==
    IF st.err # "" THEN RFail(st)
    ELSE IF i \in DOMAIN st.e THEN Again(st, st.e[i])
    ELSE IF st.on
    THEN ExpressionKept(i, disjunction(T, invalid_legacy_expression(T, invalid_expression(T, st, i), i), i))
    ELSE ExpressionKept(i, disjunction(T, st, i))

\* eval: expressions NEWLINE* ENDMARKER, g the expressions
EvalAfter(T, g) ==
    IF g.ok /\ g.st.err = "" /\ Kind(T, g.pos) = "NEWLINE"
    THEN [err |-> "", ok |-> TRUE,
          node |-> IF Len(g.node) = 1 /\ T[g.pos - 1].k # "," THEN g.node[1]
                   ELSE Node("Tuple", NoneV, g.node)]
    ELSE [err |-> g.st.err, ok |-> FALSE, node |-> Other("none")]

\* one pass of the parser over the tokens T
parse(T, on) == EvalAfter(T, gather(T, NewState(on), 1, "expression", TRUE))

(***************************************************************************)
(* _convert of ast.literal_eval: the value of a tree, or the first         *)
(* exception in the order of the conversion.                               *)
(***************************************************************************)
Converted(v) == [val |-> v, exc |-> NoExc]
Refusal(e)   == [val |-> NoneV, exc |-> e]

\* hash(v): the first item in v that cannot be hashed
RECURSIVE HashExc(_)
RECURSIVE HashItems(_, _)
HashItems(kids, n) ==
    IF n > Len(kids) THEN NoExc
    ELSE IF HashExc(kids[n]) # NoExc THEN HashExc(kids[n])
    ELSE HashItems(kids, n + 1)

HashExc(v) ==
    IF v.t \in {"list", "dict", "set"} THEN Unhashable(v)
    ELSE IF v.t = "tuple" THEN HashItems(v.kids, 1)
    ELSE NoExc

\* s.add(v)
SetAdd(acc, v) == IF \E n \in 1..Len(acc) : PyEq(acc[n], v) THEN acc ELSE Append(acc, v)

RECURSIVE convert(_)
RECURSIVE ConvertItems(_, _, _)
RECURSIVE ConvertSet(_, _, _)
RECURSIVE ConvertDict(_, _, _)

\* list(map(_convert, elts)) from item n on, c the item converted
ItemConverted(kids, n, acc, c) ==
    IF c.exc # NoExc THEN c ELSE ConvertItems(kids, n + 1, Append(acc, c.val))

ConvertItems(kids, n, acc) ==
    IF n > Len(kids) THEN Converted(acc)
    ELSE ItemConverted(kids, n, acc, convert(kids[n]))

\* set(map(_convert, elts)): an item is converted, then hashed, then the next
SetItemConverted(kids, n, acc, c) ==
    IF c.exc # NoExc THEN c
    ELSE IF HashExc(c.val) # NoExc THEN Refusal(HashExc(c.val))
    ELSE ConvertSet(kids, n + 1, SetAdd(acc, c.val))

ConvertSet(kids, n, acc) ==
    IF n > Len(kids) THEN Converted(acc)
    ELSE SetItemConverted(kids, n, acc, convert(kids[n]))

\* dict(zip(map(_convert, keys), map(_convert, values))): a key is converted, then
\* its value, then the key is hashed and the member stored.  The keys of the
\* texts above are string literals.
MemberConverted(kids, n, d, k, v) ==
    IF k.exc # NoExc THEN k
    ELSE IF v.exc # NoExc THEN v
    ELSE IF HashExc(k.val) # NoExc THEN Refusal(HashExc(k.val))
    ELSE ConvertDict(kids, n + 1, PutIn(d, Concat(k.val.s), v.val))

ConvertDict(kids, n, d) ==
    IF n > Len(kids) THEN Converted(d)
    ELSE MemberConverted(kids, n, d, convert(kids[n][1]), convert(kids[n][2]))

\* the sequence of values c as a value of its own
Wrapped(c, t) ==
    IF c.exc # NoExc THEN c ELSE Converted(Val(t, 0, <<>>, <<>>, c.val, <<>>))

convert(node) ==
    CASE node.t = "Constant" -> Converted(node.val)
      [] node.t = "List"     -> Wrapped(ConvertItems(node.kids, 1, <<>>), "list")
      [] node.t = "Tuple"    -> Wrapped(ConvertItems(node.kids, 1, <<>>), "tuple")
      [] node.t = "Set"      -> Wrapped(ConvertSet(node.kids, 1, <<>>), "set")
      [] node.t = "Dict"     -> ConvertDict(node.kids, 1, EmptyDict)
      [] OTHER               -> Refusal(Malformed(node.t))

\* the text of the parser's error err, open the brackets open at the end
syntax_error(err, open) ==
    IF err = "eof" THEN SyntaxErr("'" \o open[Len(open)] \o "' was never closed")
    ELSE IF err = "" THEN SyntaxErr("invalid syntax")
    ELSE SyntaxErr(err)

Evaluated(v)   == [ok |-> TRUE, val |-> v, exc |-> NoExc]
NotEvaluated(e) == [ok |-> FALSE, val |-> NoneV, exc |-> e]

ConvertedTree(c) == IF c.exc = NoExc THEN Evaluated(c.val) ELSE NotEvaluated(c.exc)

\* the second pass only looks for a better message than "invalid syntax"
SecondPass(tk, second) == NotEvaluated(syntax_error(second.err, tk.open))

FirstPass(tk, first) ==
    IF first.err # "" THEN NotEvaluated(syntax_error(first.err, tk.open))
    ELSE IF first.ok THEN ConvertedTree(convert(first.node))
    ELSE SecondPass(tk, parse(tk.toks, TRUE))

Parsed(tk) == IF tk.exc # NoExc THEN NotEvaluated(tk.exc) ELSE FirstPass(tk, parse(tk.toks, FALSE))

\* ast.literal_eval(text): the value, or the exception in exc
ast_literal_eval(s) ==
    IF SkipWs(s, 1) > Len(s)
    THEN NotEvaluated(Exc("SyntaxError", "invalid syntax (<unknown>, line 0)"))
    ELSE Parsed(tokenize(Concat(s), 1, <<>>, <<>>))

(***************************************************************************)
(* json.loads(json.dumps(x)): a tuple comes back as a list; a set is not   *)
(* JSON serializable (ok = FALSE is the TypeError of json.dumps).          *)
(***************************************************************************)
RECURSIVE HasSet(_)
HasSet(v) ==
    \/ v.t = "set"
    \/ \E n \in 1..Len(v.kids) : HasSet(v.kids[n])
    \/ \E k \in DOMAIN v.map : HasSet(v.map[k])

RECURSIVE AsJson(_)
AsJson(v) ==
    CASE v.t \in {"list", "tuple"} -> Arr([n \in 1..Len(v.kids) |-> AsJson(v.kids[n])])
      [] v.t = "dict"              -> Obj(v.keys, [k \in DOMAIN v.map |-> AsJson(v.map[k])])
      [] OTHER                     -> v

json_dumps_loads(v) == IF HasSet(v) THEN PFail ELSE POk(AsJson(v), 0)

(***************************************************************************)
(* Writing a value as text (json.dumps without spaces): the texts the      *)
(* inputs are built from.  Members are written in the order of the dict.   *)
(***************************************************************************)
\* the digits of a number
Digits == <<"0", "1", "2", "3", "4", "5", "6", "7", "8", "9">>

\* an int written in decimal, digit by digit
RECURSIVE Decimal(_)
Decimal(n) == IF n < 10 THEN <<Digits[n + 1]>> ELSE Append(Decimal(n \div 10), Digits[(n % 10) + 1])

RECURSIVE Serialize(_)
RECURSIVE SerializeItems(_, _)
RECURSIVE SerializeMembers(_, _)

SerializeItems(kids, n) ==
    IF n > Len(kids) THEN <<>>
    ELSE (IF n > 1 THEN <<",">> ELSE <<>>) \o Serialize(kids[n]) \o SerializeItems(kids, n + 1)

SerializeMembers(d, n) ==
    IF n > Len(d.keys) THEN <<>>
    ELSE (IF n > 1 THEN <<",">> ELSE <<>>) \o <<KeyToken(d.keys[n])>>
         \o Serialize(d.map[d.keys[n]]) \o SerializeMembers(d, n + 1)

\* the text t with a backslash in front of every double quote
RECURSIVE Escaped(_)
Escaped(t) ==
    IF Len(t) <= 1 THEN (IF t = Quote THEN "\\\"" ELSE t)
    ELSE Escaped(SubSeq(t, 1, Len(t) \div 2)) \o Escaped(SubSeq(t, Len(t) \div 2 + 1, Len(t)))

\* a string between double quotes, as json.dumps writes it (of the characters
\* json.dumps escapes the strings of the model hold the double quote only)
Quoted(s) == Quote \o Escaped(Concat(s)) \o Quote

Serialize(v) ==
    CASE v.t = "int"  -> Decimal(v.n)
      [] v.t = "bool" -> IF v.n # 0 THEN <<"true">> ELSE <<"false">>
      [] v.t = "NoneType" -> <<"null">>
      [] v.t = "str"  -> <<Quoted(v.s)>>
      [] v.t \in {"list", "tuple"} -> <<"[">> \o SerializeItems(v.kids, 1) \o <<"]">>
      [] v.t = "dict" -> <<"{">> \o SerializeMembers(v, 1) \o <<"}">>

(***************************************************************************)
(* The result of a call: a returned value or a raised exception.           *)
(***************************************************************************)
Return(v) == [outcome |-> "return", val |-> v, err |-> NoExc]
Raise(e)  == [outcome |-> "raise", val |-> NoneV, err |-> e]
NoResult  == [outcome |-> "none", val |-> NoneV, err |-> NoExc]

\* json.dumps(x) of a value that holds a set
NotSerializable == Exc("TypeError", "Object of type set is not JSON serializable")

\* the exception behind a raise of model.invoke or of parse_json itself
ExcOf(e) ==
    CASE e = "InvokeError" -> Exc("APIConnectionError", "Connection error.")
      [] e = "ValueError"  -> Exc("ValueError", "Could not find JSON in response")
      [] e = "TypeError"   -> NotSerializable

\* what model.invoke gives: the reply's content, or an exception of the backend
Reply(t)    == [ok |-> TRUE, content |-> t]
InvokeError == [ok |-> FALSE, content |-> <<>>]

(***************************************************************************)
(* parse_json of src/main.py, up to the point where it needs the repair    *)
(* model: direct parse, then fences removed and the brace span parsed.     *)
(* done = FALSE: json_maker_bot(json_text) is called.                      *)
(***************************************************************************)
Finished(r)  == [done |-> TRUE, result |-> r, json_text |-> <<>>]
CallBot(t)   == [done |-> FALSE, result |-> NoResult, json_text |-> t]

\* a parse_json that removes the fences before its first parse
parse_json_strip_first(text) ==
    LET cleaned == strip_fences(text)
        direct  == json_loads(cleaned)
    IN  IF direct.ok THEN Finished(Return(direct.val)) ELSE CallBot(cleaned)

parse_json_main(text) ==
    LET direct == json_loads(text) IN
    IF direct.ok THEN Finished(Return(direct.val))
    ELSE LET cleaned    == strip_fences(text)
             json_match == re_search(cleaned)
             salvaged   == json_loads(json_match.group)
         IN  IF json_match.found /\ salvaged.ok
             THEN Finished(Return(salvaged.val))
             ELSE CallBot(cleaned)

\* json_maker_bot of src/main.py, from the reply of model.invoke on
json_maker_bot_main(model_response) ==
    IF ~model_response.ok THEN Raise(ExcOf("InvokeError"))
    ELSE LET cleaned_response == strip(strip_fences(model_response.content))
             strict           == json_loads(cleaned_response)
             literal          == ast_literal_eval(cleaned_response)
         IN  IF strict.ok THEN Return(strict.val)
             ELSE IF literal.ok THEN Return(literal.val)
             ELSE Return(EmptyDict)

(***************************************************************************)
(* parse_json of src/enhanced_coursegen_multiagent.py: direct parse, then  *)
(* fences removed and json_maker_bot called; its reply goes through        *)
(* ast.literal_eval, the emptiness test, and json.loads(json.dumps(...)).  *)
(***************************************************************************)
parse_json_enh(text) ==
    LET direct == json_loads(text) IN
    IF direct.ok THEN Finished(Return(direct.val))
    ELSE CallBot(strip_fences(text))

\* json_maker_bot of the graph pipeline returns text
json_maker_bot_enh(model_response) ==
    IF ~model_response.ok THEN [ok |-> FALSE, text |-> <<>>]
    ELSE [ok |-> TRUE, text |-> strip_fences(model_response.content)]

parse_json_enh_resume(model_response) ==
    LET bot == json_maker_bot_enh(model_response) IN
    IF ~bot.ok THEN Raise(ExcOf("InvokeError"))
    ELSE LET json_match == ast_literal_eval(bot.text) IN
         IF ~json_match.ok THEN Raise(json_match.exc)
         ELSE IF ~Truthy(json_match.val) THEN Raise(ExcOf("ValueError"))
         ELSE LET again == json_dumps_loads(json_match.val) IN
              IF again.ok THEN Return(again.val) ELSE Raise(ExcOf("TypeError"))

\* the two files' parse_json, by file
parse_json(file, text) ==
    IF file = "main" THEN parse_json_main(text) ELSE parse_json_enh(text)

parse_json_resume(file, model_response) ==
    IF file = "main" THEN json_maker_bot_main(model_response)
    ELSE parse_json_enh_resume(model_response)

(***************************************************************************)
(* One call of parse_json as a process: it runs up to the repair model's   *)
(* call (where the caller is suspended), and from the reply to its end.    *)
(***************************************************************************)
VARIABLES
    file,            \* whose parse_json runs: "main" or "enh"
    text,            \* the argument of parse_json
    pc,              \* "call": not started, "bot": in json_maker_bot, "done"
    json_text,       \* the argument json_maker_bot was called with
    model_response,  \* what model.invoke returned inside json_maker_bot
    result,          \* what parse_json returned or raised
    botCalls         \* the number of calls of json_maker_bot

pvars == <<file, text, pc, json_text, model_response, result, botCalls>>

(***************************************************************************)
(* One run of the course pipeline (the actions are further down).         *)
(***************************************************************************)
VARIABLES
    phase,          \* the tier the run is at, then "finished"
    st,             \* per stage: "idle", "running" (generation call in flight),
                    \* "repairing" (json_maker_bot call in flight), "done", "failed"
    stage_exc,      \* per stage: the exception it raised
    pending,        \* per stage: what it returned, until the tier's join stores it
    run_state,      \* course_data of generate_course_async / the channels of State
    modelCalls,     \* per stage: generation-model calls issued
    repairCalls,    \* per stage: json_maker_bot calls issued
    job,            \* st.session_state.jobs[job_id] (src/main.py)
    saved_course,   \* the content of courses/course_<job_id>.json (src/main.py)
    invoke_result,  \* what generate_expert_course gave its caller
    faults,         \* generation replies so far that were not the bare object asked for
    session_course_data,  \* st.session_state.course_data (src/main.py, src/pages)
    edits           \* forms of the edit pages submitted so far

rvars == <<phase, st, stage_exc, pending, run_state, modelCalls, repairCalls, job,
           saved_course, invoke_result, faults, session_course_data, edits>>

(***************************************************************************)
(* The arguments generate_expert_course is called with, and one node       *)
(* function of the graph applied to a state (the actions are further       *)
(* down).                                                                  *)
(***************************************************************************)
VARIABLES
    course_args,    \* course_topic, difficulty, target_audience, learning_goals
    node,           \* the node function that is applied
    node_state,     \* the state it is given
    node_update,    \* the update it returned
    enhanced_search \* form_data["enhanced_search"] (src/main.py)

nvars == <<course_args, node, node_state, node_update, enhanced_search>>

vars == <<pvars, rvars, nvars>>

\* no pipeline runs while a single parse_json call is studied
NoRun ==
    /\ phase = "none" /\ st = <<>> /\ stage_exc = <<>> /\ pending = <<>>
    /\ run_state = <<>> /\ modelCalls = <<>> /\ repairCalls = <<>>
    /\ job = <<>> /\ saved_course = <<>> /\ invoke_result = <<>> /\ faults = 0
    /\ session_course_data = <<>> /\ edits = 0

\* the arguments of the pipeline runs
RunArgs == [course_topic |-> <<"t">>, difficulty |-> <<"Advanced">>,
            target_audience |-> <<"a">>, learning_goals |-> << <<"g">> >>]

\* no node function is studied on its own
NoNode ==
    /\ course_args = RunArgs /\ node = "none" /\ node_state = <<>> /\ node_update = <<>>

\* web search disabled
NoSearch == enhanced_search = FALSE

\* the most items of a generated list
MaxWidth == 2

Scalars == {Num(0), Num(1), TrueV, NoneV, Str(<<>>), Str(<<"x">>), Str(<<"x", "~~~">>)}

GenKeys == {"a", "properties"}

ListsOf(S, w) == {Arr(q) : q \in UNION {[1..n -> S] : n \in 0..w}}

\* the orders in which names of K can have been inserted
Orders(K) ==
    {q \in UNION {[1..n -> K] : n \in 0..Cardinality(K)} :
        \A i, j \in 1..Len(q) : i # j => q[i] # q[j]}

DictsOf(S, K) == UNION {{Obj(q, m) : m \in [Names(q) -> S]} : q \in Orders(K)}

Flat == ListsOf(Scalars, MaxWidth) \cup DictsOf(Scalars, GenKeys)

Nested == {Arr(<<f>>) : f \in Flat} \cup {Single(key, f) : key \in GenKeys, f \in Flat}

Values == Scalars \cup Flat \cup Nested

\* how a model wraps the serialization it was asked for
Wrappers == {"plain", "spaced", "fenced", "bare_fence", "prefix_fenced", "prefixed",
             "suffixed", "truncated"}

Wrap(w, t) ==
    CASE w = "plain"         -> t
      [] w = "spaced"        -> <<Ws>> \o t \o <<Ws>>
      [] w = "fenced"        -> <<FenceJson, Ws>> \o t \o <<Ws, Fence>>
      [] w = "bare_fence"    -> <<Fence>> \o t \o <<Fence>>
      [] w = "prefix_fenced" -> <<Narrative, Ws, FenceJson, Ws>> \o t \o <<Ws, Fence>>
      [] w = "prefixed"      -> <<Narrative, Ws>> \o t
      [] w = "suffixed"      -> t \o <<Ws, Narrative>>
      [] w = "truncated"     -> SubSeq(t, 1, Len(t) - 1)

Texts == {Wrap(w, Serialize(v)) : w \in Wrappers, v \in Values}

\* what the repair model may answer
ReplyValues == Scalars \cup ListsOf(Scalars, 1) \cup DictsOf(Scalars, {"a"})

ReplyTexts ==
    {Wrap(w, Serialize(v)) : w \in {"plain", "fenced", "truncated"}, v \in ReplyValues}
    \cup {<<"1", ",", "1">>, <<"(", "1", ",", ")">>, <<"{", "1", "}">>,
          <<"[", "1", ",", "]">>, <<StrX, Ws, StrX>>, <<Narrative>>}

ModelResponses == {Reply(t) : t \in ReplyTexts} \cup {InvokeError}

ParseInit ==
    /\ file \in {"main", "enh"}
    /\ text \in Texts
    /\ pc = "call"
    /\ json_text = <<>>
    /\ model_response = InvokeError
    /\ result = NoResult
    /\ botCalls = 0
    /\ NoRun
    /\ NoNode /\ NoSearch

\* parse_json(text) is called and runs until it returns or calls the bot
ParseJsonCall ==
    /\ pc = "call"
    /\ LET b == parse_json(file, text) IN
       IF b.done
       THEN /\ pc' = "done"
            /\ result' = b.result
            /\ UNCHANGED <<json_text, botCalls>>
       ELSE /\ pc' = "bot"
            /\ json_text' = b.json_text
            /\ botCalls' = botCalls + 1
            /\ UNCHANGED result
    /\ UNCHANGED <<file, text, model_response>>
    /\ UNCHANGED <<rvars, nvars>>

\* a json_maker_bot whose unusable reply is sent to the repair model again
JsonMakerBotRetry ==
    /\ pc = "bot"
    /\ \E r \in ModelResponses :
        /\ model_response' = r
        /\ IF r.ok /\ ~json_loads(strip(strip_fences(r.content))).ok
           THEN /\ pc' = "bot"
                /\ json_text' = r.content
                /\ botCalls' = botCalls + 1
                /\ UNCHANGED result
           ELSE /\ pc' = "done"
                /\ result' = parse_json_resume(file, r)
                /\ UNCHANGED <<json_text, botCalls>>
    /\ UNCHANGED <<file, text>>
    /\ UNCHANGED <<rvars, nvars>>

\* model.invoke returns inside json_maker_bot and parse_json runs to its end
JsonMakerBotReturn ==
    /\ pc = "bot"
    /\ \E r \in ModelResponses :
        /\ model_response' = r
        /\ result' = parse_json_resume(file, r)
    /\ pc' = "done"
    /\ UNCHANGED <<file, text, json_text, botCalls>>
    /\ UNCHANGED <<rvars, nvars>>

ParseNext == ParseJsonCall \/ JsonMakerBotReturn

SpecParse == ParseInit /\ [][ParseNext]_vars

(***************************************************************************)
(* Properties of parse_json (checked under SpecParse)                      *)
(***************************************************************************)
\* the reply of the repair model with its fences and outer whitespace removed
CleanedReply == strip(strip_fences(model_response.content))

\* the call went through json_maker_bot, which got a reply
Repaired == pc = "done" /\ botCalls = 1 /\ model_response.ok

\* C1: a text the strict parser accepts comes back as the value it decodes
\* to, and json_maker_bot is not called, in both files; the text is then the
\* serialization of a value (with or without outer whitespace), and that value
\* is what parse_json returns.
RoundTripHappyPath ==
    /\ json_loads(text).ok =>
           /\ pc # "bot"
           /\ botCalls = 0
           /\ pc = "done" => result = Return(json_loads(text).val)
    /\ (pc = "done" /\ json_loads(text).ok) =>
           \E v \in Values : strip(text) = Serialize(v) /\ result = Return(v)

RoundTripHappyPathWitness ==
    /\ pc = "done"
    /\ botCalls = 0
    /\ file = "main"
    /\ text = <<"[", "null", ",", StrEmpty, "]">>
    /\ result = Return(Arr(<<NoneV, Str(<<>>)>>))

\* C2: one call of parse_json calls json_maker_bot at most once, whatever
\* the text and whatever the repair model answers.
BoundedRetry ==
    /\ botCalls <= 1
    /\ pc = "bot" => botCalls = 1
    /\ pc = "call" => botCalls = 0

BoundedRetryWitness ==
    /\ Repaired
    /\ ~json_loads(CleanedReply).ok
    /\ ~ast_literal_eval(CleanedReply).ok

\* C3: when the direct parse and the salvage parse failed and the repair
\* model's text is itself unparseable, parse_json raises and returns no value.
TerminalFailureAfterRepair ==
    (Repaired /\ ~json_loads(CleanedReply).ok) => result.outcome = "raise"

\* a text that holds no fence marker, inside a string literal or outside
FenceFree(t) == strip_fences(t) = t

\* C4: when the repair model is called and answers with a valid JSON
\* serialization, parse_json returns the value that serialization decodes to
\* (stated for the answers that hold no fence marker).
SuccessfulRepairReturned ==
    (/\ Repaired
     /\ FenceFree(model_response.content)
     /\ json_loads(model_response.content).ok)
        => result = Return(json_loads(model_response.content).val)

\* the text between a narrative prefix with an opening json fence and the
\* closing fence
PrefixFenceHead == <<Narrative, Ws, FenceJson, Ws>>
FenceHead       == <<FenceJson, Ws>>
FenceTail       == <<Ws, Fence>>

Enclosed(t, head) ==
    /\ Len(t) >= Len(head) + Len(FenceTail)
    /\ SubSeq(t, 1, Len(head)) = head
    /\ SubSeq(t, Len(t) - Len(FenceTail) + 1, Len(t)) = FenceTail

Inner(t, head) == SubSeq(t, Len(head) + 1, Len(t) - Len(FenceTail))

\* C5: narrative prefix, json fence, one valid JSON object, closing fence:
\* parse_json returns the object and never calls json_maker_bot (stated for
\* the objects whose strings hold no fence marker).
SalvageWithoutRepair ==
    (/\ Enclosed(text, PrefixFenceHead)
     /\ FenceFree(Inner(text, PrefixFenceHead))
     /\ json_loads(Inner(text, PrefixFenceHead)).ok
     /\ json_loads(Inner(text, PrefixFenceHead)).val.t = "dict")
        => /\ botCalls = 0
           /\ pc = "done" => result = Return(json_loads(Inner(text, PrefixFenceHead)).val)

\* C6: a valid JSON object or array inside json fence markers gives the same
\* result as parse_json gives for the serialization alone.
FenceTransparency ==
    (/\ pc = "done"
     /\ Enclosed(text, FenceHead)
     /\ json_loads(Inner(text, FenceHead)).ok
     /\ json_loads(Inner(text, FenceHead)).val.t \in {"dict", "list"})
        => result = parse_json(file, Inner(text, FenceHead)).result


(***************************************************************************)
(* The course pipeline.  Two programs run it: generate_course_async of     *)
(* src/main.py (file = "main") and the LangGraph workflow of               *)
(* src/enhanced_coursegen_multiagent.py (file = "enh").  A stage is one    *)
(* function of the pipeline (a node of the graph); every stage but the     *)
(* graph's summary calls the generation model once.                        *)
(***************************************************************************)
Digit(n) == CASE n = 1 -> "1" [] n = 2 -> "2" [] n = 3 -> "3" [] n = 4 -> "4"

TeamNums == 1..4

TeamStage(n) == "team" \o Digit(n)

Stages == {"manager", "team1", "team2", "team3", "team4",
           "content1", "content2", "assessment", "resources", "metadata",
           "quality_review", "course_summary"}

\* the stages generate_course_async has: the quality review and the summary are
\* nodes of the graph only
StagesIn(f) == IF f = "main" THEN Stages \ {"quality_review", "course_summary"} ELSE Stages

\* the tier of a stage: the stages of one tier are gathered / run in one superstep
Tier(s) ==
    CASE s = "manager" -> "manager"
      [] s \in {"team1", "team2", "team3", "team4"} -> "teams"
      [] s \in {"content1", "content2", "assessment", "resources"} -> "artifacts"
      [] s = "metadata" -> "metadata"
      [] s = "quality_review" -> "quality_review"
      [] s = "course_summary" -> "course_summary"

Tiers == {"manager", "teams", "artifacts", "metadata", "quality_review", "course_summary"}

TierRank(t) ==
    CASE t \in {"search", "searching"} -> 0
      [] t = "manager" -> 1 [] t = "teams" -> 2 [] t = "artifacts" -> 3
      [] t = "readiness" -> 4 [] t = "metadata" -> 5 [] t = "quality_review" -> 6
      [] t = "course_summary" -> 7 [] OTHER -> 8

StagesOf(t) == {s \in Stages : Tier(s) = t}

\* the position of a stage in its tier's task list
Order(s) ==
    CASE s \in {"manager", "team1", "content1", "metadata", "quality_review",
                "course_summary"} -> 1
      [] s \in {"team2", "content2"} -> 2
      [] s \in {"team3", "assessment"} -> 3
      [] s \in {"team4", "resources"} -> 4

\* a wiring whose second content stage is called for team 3
TeamNumShifted(f, s) ==
    CASE s \in {"team1", "content1"} -> 1
      [] s = "team2" -> 2
      [] s \in {"team3", "content2"} -> 3
      [] s = "team4" -> 4
      [] s = "assessment" -> IF f = "main" THEN 1 ELSE 3
      [] s = "resources"  -> IF f = "main" THEN 1 ELSE 4
      [] OTHER -> 0

\* the team number a stage is called with
TeamNum(f, s) ==
    CASE s \in {"team1", "content1"} -> 1
      [] s \in {"team2", "content2"} -> 2
      [] s = "team3" -> 3
      [] s = "team4" -> 4
      [] s = "assessment" -> IF f = "main" THEN 1 ELSE 3
      [] s = "resources"  -> IF f = "main" THEN 1 ELSE 4
      [] OTHER -> 0

\* d.get(k, default) and what a missing attribute gives
Get(v, k, default) == IF k \in DOMAIN v.map THEN v.map[k] ELSE default

HasGet(v) == v.t = "dict"

\* x.attr on a value whose type has no such attribute
NoAttribute(v, attr) ==
    Exc("AttributeError", "'" \o v.t \o "' object has no attribute '" \o attr \o "'")

\* x.get(...) on a value that is not a dict
AttributeError(v) == NoAttribute(v, "get")

(***************************************************************************)
(* What the generation model may answer to a stage, and the repair model   *)
(* to that stage's json_maker_bot call.                                    *)
(***************************************************************************)
X == Str(<<"x">>)

GoodPlan ==
    Obj(<<"task_1", "detail_1", "task_2", "detail_2", "task_3", "detail_3", "task_4",
          "detail_4">>,
        [k \in {"task_1", "detail_1", "task_2", "detail_2", "task_3", "detail_3",
                "task_4", "detail_4"} |-> X])

GoodModules ==
    Obj(<<"module_1", "description_1", "learning_objectives_1">>,
        [k \in {"module_1", "description_1", "learning_objectives_1"} |->
            IF k = "learning_objectives_1" THEN Arr(<<X>>) ELSE X])

GoodArtifact == Single("a", X)

Good(s) ==
    CASE Tier(s) = "manager" -> GoodPlan
      [] Tier(s) = "teams"   -> GoodModules
      [] OTHER               -> GoodArtifact

Envelope(v) == Single("properties", v)

StageReplies(s) ==
    {Reply(Serialize(Good(s))), Reply(Serialize(Envelope(Good(s)))),
     Reply(Wrap("truncated", Serialize(Good(s)))), Reply(Serialize(EmptyDict)),
     InvokeError}

\* a reply in Python's literal syntax that holds a set:  {"a":{1}}
SetReply == Reply(<<"{", KeyToken("a"), "{", "1", "}", "}">>)

RepairReplies(s) ==
    {Reply(Wrap("fenced", Serialize(Good(s)))), Reply(<<Narrative>>), SetReply, InvokeError}

\* the most generation replies of one run that deviate from the bare object
MaxFaults == 2

\* 1 for a generation reply that deviates from the bare object, 0 for the bare object
Fault(s, reply) == IF reply = Reply(Serialize(Good(s))) THEN 0 ELSE 1

\* response = model.invoke(...) and parse_json(response.content) up to the point
\* where parse_json calls json_maker_bot
Invoke(f, reply) ==
    IF ~reply.ok THEN Finished(Raise(ExcOf("InvokeError"))) ELSE parse_json(f, reply.content)

\* a stage that asks the repair model a second time when the first repair fails
GenerateRepairTwice(f, b, repair) ==
    IF b.done THEN [result |-> b.result, repairs |-> 0]
    ELSE IF parse_json_resume(f, repair).outcome = "raise"
         THEN [result |-> parse_json_resume(f, repair), repairs |-> 2]
         ELSE [result |-> parse_json_resume(f, repair), repairs |-> 1]

\* the generation of a stage from b = Invoke(f, reply) on: the value or the
\* exception parse_json ends with, and the number of json_maker_bot calls made on
\* the way
Generate(f, b, repair) ==
    IF b.done THEN [result |-> b.result, repairs |-> 0]
    ELSE [result |-> parse_json_resume(f, repair), repairs |-> 1]


(***************************************************************************)
(* The stage functions of src/main.py, from the parsed generation on.      *)
(* Each gives the exception it raises (NoExc if none) and the items it     *)
(* contributes to course_data.                                             *)
(***************************************************************************)
Ok(update) == [exc |-> NoExc, update |-> update]
Failed(e)  == [exc |-> e, update |-> <<>>]

TeamOutputKey(n) == "team_output_" \o Digit(n)

ModuleKey(n) == TeamStage(n) \o "_module1"

\* generate_team_output: the only stage that unwraps a "properties" envelope
generate_team_output(team_num, parsed) ==
    IF ~HasGet(parsed) THEN Failed(AttributeError(parsed))
    ELSE LET properties  == Get(parsed, "properties", NoneV)
             team_output == IF Truthy(properties) THEN properties ELSE parsed
         IN  Ok(TeamOutputKey(team_num) :> Single(TeamStage(team_num), team_output))

\* enhanced_course_manager, generate_module_content, generate_assessments,
\* generate_resources, generate_course_metadata return parse_json's value, and
\* generate_course_async stores it
MainStageEnd(s, parsed) ==
    CASE s = "manager"    -> Ok("manager_output" :> parsed)
      [] Tier(s) = "teams" -> generate_team_output(TeamNum("main", s), parsed)
      [] s = "content1"   -> Ok("team1_module1" :> parsed)
      [] s = "content2"   -> Ok("team2_module1" :> parsed)
      [] s = "assessment" -> Ok("assessment_content" :> Single("team1_module1", parsed))
      [] s = "resources"  -> Ok("resources_content" :> Single("team1_module1", parsed))
      [] s = "metadata"   -> Ok("metadata" :> parsed)

\* generate_course_async reads the first module of teams 1 and 2 after the gather
MainModuleInputs(state) ==
    LET team1_module == Get(state.map["team_output_1"], "team1", EmptyDict)
        team2_module == Get(state.map["team_output_2"], "team2", EmptyDict)
    IN  IF ~HasGet(team1_module) THEN AttributeError(team1_module)
        ELSE IF ~HasGet(team2_module) THEN AttributeError(team2_module)
        ELSE NoExc

(***************************************************************************)
(* The web search of src/main.py: the search provider's answer, the page   *)
(* fetched for each result, and the insights the model extracts from it.   *)
(***************************************************************************)
\* the most results of a search answer
MaxResults == 2

WithUrl == Single("url", X)

WithoutUrl == Single("title", X)

\* client.search(...): its response, or an exception of the provider
SearchResponses ==
    {[ok |-> FALSE, results |-> <<>>]}
    \cup {[ok |-> TRUE, results |-> r] :
             r \in UNION {[1..n -> {WithUrl, WithoutUrl}] : n \in 0..MaxResults}}

\* what the model may answer to the insights prompt
InsightReplies ==
    {Reply(Serialize(Arr(<<X>>))), Reply(Wrap("fenced", Serialize(Arr(<<Num(1), X>>)))),
     Reply(Serialize(GoodArtifact)), Reply(<<Narrative>>), InvokeError}

\* for one result: whether client.extract returned (fetch_webpage_content catches
\* its exception and the page only enters the prompt), the model's answer to the
\* insights prompt and the repair model's answer
ResultInputs ==
    [fetched : BOOLEAN, reply : InsightReplies, repair : {Reply(<<Narrative>>), InvokeError}]

CleanInput == [fetched |-> TRUE, reply |-> Reply(Serialize(Arr(<<X>>))), repair |-> InvokeError]

\* the deviations of a search from the plain one (one result with a url, its page
\* fetched, a bare list of insights)
RECURSIVE InputFaults(_, _, _)
InputFaults(results, inputs, i) ==
    IF i > Len(results) THEN 0
    ELSE (IF inputs[i] = CleanInput /\ results[i] = WithUrl THEN 0 ELSE 1)
         + InputFaults(results, inputs, i + 1)

SearchFaults(response, inputs) ==
    IF ~response.ok \/ response.results = <<>> THEN 1
    ELSE (Len(response.results) - 1) + InputFaults(response.results, inputs, 1)

perform_web_search(response) ==
    IF response.ok THEN Single("results", Arr(response.results))
    ELSE Obj(<<"error", "results">>,
             [k \in {"error", "results"} |-> IF k = "error" THEN Str(<<"e">>) ELSE Arr(<<>>)])

\* for insight in insights: if insight not in extracted: extracted.append(insight)
RECURSIVE AppendNew(_, _)
AppendNew(extracted, insights) ==
    IF insights = <<>> THEN extracted
    ELSE AppendNew(IF \E j \in 1..Len(extracted) : PyEq(extracted[j], Head(insights))
                   THEN extracted ELSE Append(extracted, Head(insights)),
                   Tail(insights))

\* parse_json(insights_response.content.replace(...)) inside the try block
ExtractInsights(input) ==
    Generate("main",
             Invoke("main", IF input.reply.ok THEN Reply(strip_fences(input.reply.content))
                            ELSE input.reply),
             input.repair).result

\* the except clause, and the isinstance(insights, list) test with its loop
Extracted(acc, insights) ==
    IF insights.outcome = "raise" THEN [acc EXCEPT !.raised = TRUE]
    ELSE IF insights.val.t = "list"
    THEN [acc EXCEPT !.extracted = AppendNew(@, insights.val.kids)]
    ELSE acc

\* the loop over the results of web_search_enhancer: extracted_insights at its end,
\* and whether an insight extraction raised on the way
RECURSIVE Insights(_, _, _, _)
Insights(results, inputs, i, acc) ==
    IF i > Len(results) THEN acc
    ELSE IF "url" \notin DOMAIN results[i].map THEN Insights(results, inputs, i + 1, acc)
    ELSE Insights(results, inputs, i + 1, Extracted(acc, ExtractInsights(inputs[i])))

\* x[:5]
FirstFive(kids) == SubSeq(kids, 1, IF Len(kids) < 5 THEN Len(kids) ELSE 5)

enhanced_content(search_results, extracted) ==
    Obj(<<"search_query", "results", "extracted_insights">>,
        [k \in {"search_query", "results", "extracted_insights"} |->
            CASE k = "search_query" -> Str(<<"best practices teaching ", "t", " curriculum">>)
              [] k = "results" -> Arr(FirstFive(Get(search_results, "results", Arr(<<>>)).kids))
              [] k = "extracted_insights" -> Arr(extracted)])

\* the loop of web_search_enhancer over the results of the search
InsightsLoop(search_results, inputs) ==
    Insights(FirstFive(search_results.map["results"].kids), inputs, 1,
             [extracted |-> <<>>, raised |-> FALSE])

\* web_search_enhancer from the answer of perform_web_search on, with the outcome
\* of its loop
EnhancerReturn(search_results, loop) ==
    Ok([k \in {"search_results"} |-> enhanced_content(search_results, loop.extracted)])

EnhancerReraise(search_results, loop) ==
    IF loop.raised THEN Failed(ExcOf("InvokeError"))
    ELSE EnhancerReturn(search_results, loop)

\* a web_search_enhancer whose except clause raises again
web_search_enhancer_raising(response, inputs) ==
    EnhancerReraise(perform_web_search(response),
                    InsightsLoop(perform_web_search(response), inputs))

\* web_search_enhancer, stored by generate_course_async as course_data["search_results"]
web_search_enhancer(response, inputs) ==
    EnhancerReturn(perform_web_search(response),
                   InsightsLoop(perform_web_search(response), inputs))

\* search_results.get("extracted_insights", []) if search_results else []
search_insights(course_data) ==
    IF Truthy(Get(course_data, "search_results", EmptyDict))
    THEN Get(Get(course_data, "search_results", EmptyDict), "extracted_insights", Arr(<<>>))
    ELSE Arr(<<>>)

(***************************************************************************)
(* The node functions of src/enhanced_coursegen_multiagent.py: what each   *)
(* checks before its model call, and the update it returns.                *)
(***************************************************************************)
StateKeys == {"manager_output", "team_output_1", "team_output_2", "team_output_3",
              "team_output_4", "team1_module1", "team2_module1", "assessment_content",
              "resources_content", "feedback", "course_metadata"}

\* an entry of the messages log: role (as the kind of the value), content and the
\* id add_messages gave it (0: none yet)
Message(role, content, id) == Val(role, id, content, <<>>, <<>>, <<>>)

\* state["messages"] + [{"role": "assistant", "content": content}]
WithMessage(state, content) ==
    Arr(Append(state.map["messages"].kids, Message("assistant", content, 0)))

\* the add_messages reducer of the messages channel: an entry without an id gets a
\* fresh one; an entry whose id the log holds replaces that entry; the others are
\* appended
RECURSIVE MergeMessages(_, _, _)
MergeMessages(merged, right, i) ==
    IF i > Len(right) THEN merged
    ELSE IF right[i].n = 0
    THEN MergeMessages(Append(merged, [right[i] EXCEPT !.n = Len(merged) + 1]), right, i + 1)
    ELSE IF \E j \in 1..Len(merged) : merged[j].n = right[i].n
    THEN MergeMessages([j \in 1..Len(merged) |->
                           IF merged[j].n = right[i].n THEN right[i] ELSE merged[j]],
                       right, i + 1)
    ELSE MergeMessages(Append(merged, right[i]), right, i + 1)

add_messages(left, right) == Arr(MergeMessages(left.kids, right.kids, 1))

(***************************************************************************)
(* The input message of generate_expert_course and the regular expressions *)
(* of extract_course_parameters.  A text is a sequence of pieces, each     *)
(* written as it appears in the text; the words the expressions look for   *)
(* ("course", "on", "for", "with", "Difficulty", the level names, ...),    *)
(* the punctuation and the space are pieces of their own, so that a word   *)
(* such as "platform" is the three pieces "plat" "for" "m".  The texts     *)
(* hold no line break.                                                     *)
(***************************************************************************)
\* the letters that have an upper and a lower case, in the same order
UpperLetters == "ABCDEFGHIJKLMNOPQRSTUVWXYZ"
LowerLetters == "abcdefghijklmnopqrstuvwxyz"

\* character c in the case of the letters to, when it is one of the letters from
Cased(c, from, to) ==
    IF Find(from, c, 1) = 0 THEN c ELSE Ch(to, Find(from, c, 1))

\* str.lower() of a piece; the searches are made with re.IGNORECASE, under which a
\* letter of the pattern matches both of its cases
RECURSIVE Lower(_)
Lower(p) ==
    IF p = "" THEN ""
    ELSE IF Len(p) = 1 THEN Cased(p, UpperLetters, LowerLetters)
    ELSE Lower(SubSeq(p, 1, Len(p) \div 2)) \o Lower(SubSeq(p, Len(p) \div 2 + 1, Len(p)))

Levels == {"beginner", "intermediate", "advanced", "expert"}

\* str.capitalize(): the first character in upper case, the others in lower case
Capitalize(p) ==
    IF p = "" THEN ""
    ELSE Cased(Ch(p, 1), LowerLetters, UpperLetters) \o Lower(SubSeq(p, 2, Len(p)))

\* ', '.join(learning_goals)
RECURSIVE JoinGoals(_)
JoinGoals(goals) ==
    IF goals = <<>> THEN <<>>
    ELSE IF Len(goals) = 1 THEN goals[1]
    ELSE goals[1] \o <<",", " ">> \o JoinGoals(Tail(goals))

\* the f-string generate_expert_course formats its arguments into
input_message(course_topic, difficulty, target_audience, learning_goals) ==
    <<"Create an expert-level ", "course", " ", "on", ":", " ">> \o course_topic
    \o <<".", " ", "Difficulty", ":", " ">> \o difficulty
    \o <<".", " ", "Audience", ":", " ">> \o target_audience
    \o <<".", " ", "Goals", ":", " ">> \o JoinGoals(learning_goals) \o <<".">>

NoMatch == [found |-> FALSE, group |-> <<>>]
Match(g) == [found |-> TRUE, group |-> g]

\* \s*:?\s* from position i on: the position behind it
AfterLabel(s, i) ==
    SkipWs(s, IF SkipWs(s, i) <= Len(s) /\ s[SkipWs(s, i)] = ":"
              THEN SkipWs(s, i) + 1 ELSE SkipWs(s, i))

\* (.*?)(?:\.|$|stop words) from position k on: where the lazy group ends
LazyEnd(s, k, stops) ==
    LET ends == {e \in k..Len(s) : s[e] = "." \/ Lower(s[e]) \in stops}
    IN  IF ends = {} THEN (IF k > Len(s) THEN k ELSE Len(s) + 1) ELSE SetMin(ends)

\* re.search(r'course\s+on\s*:?\s*(.*?)(?:\.|$|with|for)', s, re.IGNORECASE)
topic_match(s) ==
    LET starts == {i \in 1..Len(s) :
                      /\ Lower(s[i]) = "course"
                      /\ i + 1 <= Len(s) /\ s[i + 1] = Ws
                      /\ SkipWs(s, i + 1) <= Len(s) /\ Lower(s[SkipWs(s, i + 1)]) = "on"}
    IN  IF starts = {} THEN NoMatch
        ELSE Match(SubSeq(s, AfterLabel(s, SkipWs(s, SetMin(starts) + 1) + 1),
                          LazyEnd(s, AfterLabel(s, SkipWs(s, SetMin(starts) + 1) + 1),
                                  {"with", "for"}) - 1))

\* re.search(r'difficulty\s*:?\s*(beginner|intermediate|advanced|expert)', s, re.IGNORECASE)
difficulty_match(s) ==
    LET starts == {i \in 1..Len(s) :
                      /\ Lower(s[i]) = "difficulty"
                      /\ AfterLabel(s, i + 1) <= Len(s)
                      /\ Lower(s[AfterLabel(s, i + 1)]) \in Levels}
    IN  IF starts = {} THEN NoMatch
        ELSE Match(<<s[AfterLabel(s, SetMin(starts) + 1)]>>)

\* re.search(r'audience\s*:?\s*(.*?)(?:\.|$)', s, re.IGNORECASE), and the same
\* with goals
label_match(s, label) ==
    LET starts == {i \in 1..Len(s) : Lower(s[i]) = label}
    IN  IF starts = {} THEN NoMatch
        ELSE Match(SubSeq(s, AfterLabel(s, SetMin(starts) + 1),
                          LazyEnd(s, AfterLabel(s, SetMin(starts) + 1), {}) - 1))

\* re.split(r'[,;]', text): cur is the item being read
RECURSIVE re_split(_, _)
re_split(s, cur) ==
    IF s = <<>> THEN <<cur>>
    ELSE IF Head(s) \in {",", ";"} THEN <<cur>> \o re_split(Tail(s), <<>>)
    ELSE re_split(Tail(s), Append(cur, Head(s)))

DefaultAudience == <<"Adult learners interested in the subject">>

\* extract_course_parameters: the four parameters read back from the first message
extract_course_parameters(state) ==
    LET user_input == state.map["messages"].kids[1].s IN
    [k \in {"course_topic", "difficulty_level", "target_audience", "learning_goals"} |->
        CASE k = "course_topic" ->
                 Str(strip(IF topic_match(user_input).found
                           THEN topic_match(user_input).group ELSE user_input))
          [] k = "difficulty_level" ->
                 Str(IF difficulty_match(user_input).found
                     THEN <<Capitalize(difficulty_match(user_input).group[1])>>
                     ELSE <<"Intermediate">>)
          [] k = "target_audience" ->
                 Str(IF label_match(user_input, "audience").found
                     THEN strip(label_match(user_input, "audience").group)
                     ELSE DefaultAudience)
          [] k = "learning_goals" ->
                 IF label_match(user_input, "goals").found
                 THEN Arr([i \in 1..Len(re_split(strip(label_match(user_input, "goals").group), <<>>)) |->
                             Str(strip(re_split(strip(label_match(user_input, "goals").group), <<>>)[i]))])
                 ELSE Arr(<<Str(<<"Understand core concepts">>),
                            Str(<<"Apply knowledge practically">>),
                            Str(<<"Develop critical thinking skills">>)>>)]

(***************************************************************************)
(* The order in which a set is iterated is the order of the slots of its   *)
(* hash table.  A table is a sequence of slots 0 .. size - 1 (slot i at    *)
(* index i + 1), each holding the index of its item in kids, or 0 when it  *)
(* is free.  The hash of an int or a bool is its value; the hash of a str  *)
(* is salted anew in every process, the hash of None is taken from an      *)
(* address and the hash of a tuple is computed by 64-bit arithmetic from   *)
(* the hashes of its items: such an item may fall into any free slot.      *)
(***************************************************************************)
\* the slot an item of hash h is put in: slot i, then (where the table is long
\* enough) the nine slots behind it, then the next slot of the perturbed sequence
RECURSIVE Probe(_, _, _)
Probe(table, i, perturb) ==
    IF \E k \in i..(IF i + 9 <= Len(table) - 1 THEN i + 9 ELSE i) : table[k + 1] = 0
    THEN SetMin({k \in i..(IF i + 9 <= Len(table) - 1 THEN i + 9 ELSE i) : table[k + 1] = 0})
    ELSE Probe(table, (i * 5 + 1 + (perturb \div 32)) % Len(table), perturb \div 32)

\* the slots item v may be put in
Slots(table, v) ==
    IF v.t \in {"int", "bool"} THEN {Probe(table, v.n % Len(table), v.n)}
    ELSE {k \in 0..(Len(table) - 1) : table[k + 1] = 0}

\* the number of items of a table
Used(table) == Cardinality({k \in 1..Len(table) : table[k] # 0})

\* the size of the table that takes over: the first power of two above 4 * used
RECURSIVE NewSize(_, _)
NewSize(size, used) == IF size <= 4 * used THEN NewSize(2 * size, used) ELSE size

\* the items of the table old from slot k on are put into the table new, in the
\* order of their slots
RECURSIVE Rehashed(_, _, _, _)
Rehashed(old, k, new, kids) ==
    IF k > Len(old) THEN {new}
    ELSE IF old[k] = 0 THEN Rehashed(old, k + 1, new, kids)
    ELSE UNION {Rehashed(old, k + 1, [new EXCEPT ![f + 1] = old[k]], kids) :
                   f \in Slots(new, kids[old[k]])}

\* the table after an item was added: a larger table takes over once three fifths
\* of the slots are used
Grown(table, kids) ==
    IF Used(table) * 5 < (Len(table) - 1) * 3 THEN {table}
    ELSE Rehashed(table, 1, [k \in 1..NewSize(8, Used(table)) |-> 0], kids)

\* the tables that the items kids[n], kids[n + 1], ... added in that order may give
RECURSIVE Tables(_, _, _)
Tables(table, kids, n) ==
    IF n > Len(kids) THEN {table}
    ELSE UNION {UNION {Tables(g, kids, n + 1) : g \in Grown([table EXCEPT ![f + 1] = n], kids)} :
                   f \in Slots(table, kids[n])}

\* the orders in which the set of the items kids, added in that order, may be
\* iterated
Iterated(kids) ==
    {[i \in 1..Len(kids) |-> kids[SelectSeq(t, LAMBDA x : x # 0)[i]]] :
        t \in Tables([k \in 1..8 |-> 0], kids, 1)}

\* repr(v), as the set of the texts it may be: strings between single quotes, the
\* members of a dict in its order, the items of a set in an order of its iteration
\* (the strings of the model hold no character that repr escapes)
RECURSIVE Repr(_)
RECURSIVE ReprItems(_, _)
RECURSIVE ReprMembers(_, _)

ReprItems(kids, n) ==
    IF n > Len(kids) THEN {<<>>}
    ELSE {(IF n > 1 THEN <<", ">> ELSE <<>>) \o item \o items :
             item \in Repr(kids[n]), items \in ReprItems(kids, n + 1)}

ReprMembers(d, n) ==
    IF n > Len(d.keys) THEN {<<>>}
    ELSE {(IF n > 1 THEN <<", ">> ELSE <<>>) \o <<"'", d.keys[n], "': ">> \o member \o members :
             member \in Repr(d.map[d.keys[n]]), members \in ReprMembers(d, n + 1)}

Repr(v) ==
    CASE v.t = "int"      -> {Decimal(v.n)}
      [] v.t = "bool"     -> {IF v.n # 0 THEN <<"True">> ELSE <<"False">>}
      [] v.t = "NoneType" -> {<<"None">>}
      [] v.t = "str"      -> {<<"'">> \o v.s \o <<"'">>}
      [] v.t = "list"     -> {<<"[">> \o items \o <<"]">> : items \in ReprItems(v.kids, 1)}
      [] v.t = "tuple"    -> {<<"(">> \o items
                              \o (IF Len(v.kids) = 1 THEN <<",">> ELSE <<>>) \o <<")">> :
                                 items \in ReprItems(v.kids, 1)}
      [] v.t = "set"      -> IF v.kids = <<>> THEN {<<"set()">>}
                             ELSE UNION {{<<"{">> \o items \o <<"}">> :
                                             items \in ReprItems(order, 1)} :
                                            order \in Iterated(v.kids)}
      [] v.t = "dict"     -> {<<"{">> \o members \o <<"}">> : members \in ReprMembers(v, 1)}

\* str(v) inside an f-string, as the set of the texts it may be: the text of a
\* string, the repr of any other value
Format(v) == IF v.t = "str" THEN {v.s} ELSE Repr(v)

IdentityKeys == {"course_topic", "difficulty_level", "target_audience", "learning_goals"}

\* the channels of State
Channels == StateKeys \cup IdentityKeys \cup {"messages"}

\* initial_state of generate_expert_course as graph.invoke takes it in: the keys
\* that are channels of State ("team_outputs" and "module_content" are not)
initial_state(course_topic, difficulty, target_audience, learning_goals) ==
    Obj(<<"messages", "course_topic", "difficulty_level", "target_audience",
          "learning_goals", "manager_output", "assessment_content",
          "resources_content", "feedback", "course_metadata">>,
        [k \in {"messages", "course_topic", "difficulty_level", "target_audience",
                "learning_goals", "manager_output", "assessment_content",
                "resources_content", "feedback", "course_metadata"} |->
            CASE k = "messages" ->
                     add_messages(Arr(<<>>),
                         Arr(<<Message("user", input_message(course_topic, difficulty,
                                           target_audience, learning_goals), 0)>>))
              [] k \in {"course_topic", "difficulty_level", "target_audience"} -> Str(<<>>)
              [] k = "learning_goals" -> Arr(<<>>)
              [] OTHER -> EmptyDict])

\* initialize_state: the parameters extracted from the input message, every data
\* channel set to {}, and the node's entry in the log ("module_content" is in the
\* update and is not a channel)
initialize_state(state) ==
    [k \in Channels \cup {"module_content"} |->
        CASE k = "messages" ->
                 WithMessage(state, <<"Initializing course generation for: ">>
                                    \o extract_course_parameters(state)["course_topic"].s)
          [] k \in IdentityKeys -> extract_course_parameters(state)[k]
          [] OTHER -> EmptyDict]

team_leader_check(state, team_num) ==
    LET manager_output == state.map["manager_output"] IN
    IF ~HasGet(manager_output) THEN AttributeError(manager_output)
    ELSE LET properties == Get(manager_output, "properties", NoneV)
             plan       == IF Truthy(properties) THEN properties ELSE manager_output
         IN  IF ~HasGet(plan) THEN AttributeError(plan)
             ELSE LET team_task   == Get(plan, "task_" \o Digit(team_num), NoneV)
                      team_detail == Get(plan, "detail_" \o Digit(team_num), NoneV)
                  IN  IF ~Truthy(team_task) \/ ~Truthy(team_detail)
                      THEN Exc("ValueError", "Missing task_" \o Digit(team_num) \o " or detail_"
                                   \o Digit(team_num) \o " in manager response")
                      ELSE NoExc

\* the specialty team1_leader .. team4_leader pass to team_leader
Specialty(team_num) ==
    CASE team_num = 1 -> "curriculum planning and course structure"
      [] team_num = 2 -> "core content development"
      [] team_num = 3 -> "assessments and practice materials"
      [] team_num = 4 -> "resources and advanced materials"

team_leader_update(state, team_num, team_output) ==
    LET team_outputs == state.map[TeamOutputKey(team_num)] IN
    IF team_outputs.t = "list"
    THEN Failed(Exc("TypeError", "list indices must be integers or slices, not str"))
    ELSE IF team_outputs.t = "set"
    THEN Failed(Exc("TypeError", "'set' object does not support item assignment"))
    ELSE IF ~HasGet(team_outputs) THEN Failed(NoAttribute(team_outputs, "copy"))
    ELSE Ok(("messages" :>
                WithMessage(state, <<"Team ", Digit(team_num),
                                     " has created module outlines for the ",
                                     Specialty(team_num), " aspect of the course.">>))
            @@ (TeamOutputKey(team_num) :>
                PutIn(team_outputs, TeamStage(team_num), team_output)))

\* key in container, for the containers that have the test: a member name of a
\* dict, a part of a str, an item of a list, tuple or set
Contains(container, key) ==
    CASE container.t = "dict" -> key \in DOMAIN container.map
      [] container.t = "str"  -> Find(Concat(container.s), key, 1) # 0
      [] OTHER -> \E n \in 1..Len(container.kids) : PyEq(container.kids[n], Str(<<key>>))

\* key in v of a value that has no such test
NotIterable(v) == Exc("TypeError", "argument of type '" \o v.t \o "' is not iterable")

\* v[key], key a str, of a value that is no dict
NoSubscript(v) ==
    CASE v.t = "str" -> Exc("TypeError", "string indices must be integers, not 'str'")
      [] v.t = "set" -> Exc("TypeError", "'set' object is not subscriptable")
      [] OTHER       -> Exc("TypeError", v.t \o " indices must be integers or slices, not str")

\* the checks content_creator, assessment_creator and resources_creator all make
content_creator_check(state, team_num) ==
    LET team_outputs == state.map[TeamOutputKey(team_num)]
        team_key     == TeamStage(team_num)
    IN  IF team_outputs.t \in {"int", "bool", "NoneType"} THEN NotIterable(team_outputs)
        ELSE IF ~Contains(team_outputs, team_key)
        THEN Exc("ValueError", "Missing output from " \o team_key)
        ELSE IF team_outputs.t # "dict" THEN NoSubscript(team_outputs)
        ELSE LET raw == team_outputs.map[team_key] IN
             IF ~HasGet(raw) THEN AttributeError(raw)
             ELSE LET team_properties == Get(raw, "properties", NoneV)
                      team_output == IF Truthy(team_properties) THEN team_properties ELSE raw
                  IN  IF ~HasGet(team_output) THEN AttributeError(team_output)
                      ELSE IF ~Truthy(Get(team_output, "module_1", NoneV))
                              \/ ~Truthy(Get(team_output, "description_1", NoneV))
                      THEN Exc("ValueError", "Missing module information for " \o team_key
                                   \o ", module 1")
                      ELSE NoExc

\* a content creator that stores its content over the module listing of its team
content_creator_overwrite(state, team_num, content_output) ==
    {Ok(("messages" :> state.map["messages"])
        @@ (TeamOutputKey(team_num) :> content_output)
        @@ (ModuleKey(team_num) :> content_output))}

\* module_title as the creators read it once their checks have passed
module_title(state, team_num) ==
    LET raw == state.map[TeamOutputKey(team_num)].map[TeamStage(team_num)]
        team_properties == Get(raw, "properties", NoneV)
    IN  Get(IF Truthy(team_properties) THEN team_properties ELSE raw, "module_1", NoneV)

\* what c = v.copy() followed by c[key] = ... raises when v is no dict
StoreError(v) ==
    CASE v.t = "dict" -> NoExc
      [] v.t = "list" -> Exc("TypeError", "list indices must be integers or slices, not str")
      [] v.t = "set"  -> Exc("TypeError", "'set' object does not support item assignment")
      [] OTHER        -> NoAttribute(v, "copy")

\* the returns of the creators, one for each text their message may be
content_creator_update(state, team_num, content_output) ==
    {Ok(("messages" :>
            WithMessage(state, <<"Created detailed content for module: ">> \o title \o <<".">>))
        @@ (TeamOutputKey(team_num) :> state.map[TeamOutputKey(team_num)])
        @@ (ModuleKey(team_num) :> content_output)) :
        title \in Format(module_title(state, team_num))}

assessment_creator_update(state, team_num, assessment_output) ==
    IF StoreError(state.map["assessment_content"]) # NoExc
    THEN {Failed(StoreError(state.map["assessment_content"]))}
    ELSE
    {Ok(("messages" :>
            WithMessage(state, <<"Created assessments for module: ">> \o title \o <<".">>))
        @@ (TeamOutputKey(team_num) :> state.map[TeamOutputKey(team_num)])
        @@ ("assessment_content" :>
               PutIn(state.map["assessment_content"], ModuleKey(team_num),
                     assessment_output))) :
        title \in Format(module_title(state, team_num))}

\* a resources creator written as a copy of assessment_creator that still stores
\* under assessment_content
resources_creator_copied(state, team_num, resources_output) ==
    {Ok(("messages" :> state.map["messages"])
        @@ (TeamOutputKey(team_num) :> state.map[TeamOutputKey(team_num)])
        @@ ("assessment_content" :>
               PutIn(state.map["assessment_content"], ModuleKey(team_num),
                     resources_output)))}

resources_creator_update(state, team_num, resources_output) ==
    IF StoreError(state.map["resources_content"]) # NoExc
    THEN {Failed(StoreError(state.map["resources_content"]))}
    ELSE
    {Ok(("messages" :>
            WithMessage(state, <<"Created resources for module: ">> \o title \o <<".">>))
        @@ ("resources_content" :>
               PutIn(state.map["resources_content"], ModuleKey(team_num),
                     resources_output))) :
        title \in Format(module_title(state, team_num))}

\* a course manager that returns an empty list of learning goals
course_manager_dropping_goals(state, manager_output) ==
    Ok([k \in Channels |->
           CASE k = "manager_output" -> manager_output
             [] k = "learning_goals" -> Arr(<<>>)
             [] k = "messages" ->
                  WithMessage(state, <<"Course manager has divided the work into specialized tasks for each team.">>)
             [] OTHER -> state.map[k]])

\* course_manager and course_metadata_creator return their output and a copy of
\* the other channels
course_manager_update(state, manager_output) ==
    Ok([k \in Channels |->
           CASE k = "manager_output" -> manager_output
             [] k = "messages" ->
                  WithMessage(state, <<"Course manager has divided the work into specialized tasks for each team.">>)
             [] OTHER -> state.map[k]])

course_metadata_creator_update(state, metadata_output) ==
    IF ~HasGet(metadata_output) THEN {Failed(AttributeError(metadata_output))}
    ELSE
    {Ok([k \in Channels |->
            CASE k = "course_metadata" -> metadata_output
              [] k = "messages" ->
                   WithMessage(state, <<"Created complete course metadata for: ">>
                                      \o title \o <<".">>)
              [] OTHER -> state.map[k]]) :
        title \in Format(Get(metadata_output, "title", state.map["course_topic"]))}

\* the team_outputs mapping as generate_expert_course and course_generator_summary
\* build it from the state
team_outputs(state) ==
    Obj(<<"team_output_1", "team_output_2", "team_output_3", "team_output_4">>,
        [k \in {TeamOutputKey(n) : n \in TeamNums} |->
            IF k = "team_output_4" THEN state.map["team_output_1"] ELSE state.map[k]])

module_content(state) ==
    Obj(<<"team1_module1", "team2_module1">>,
        [k \in {"team1_module1", "team2_module1"} |-> state.map[k]])

Sized(v) == v.t \in {"dict", "str", "list", "tuple", "set"}

\* len(x) of a value that has none
NoLen(v) == Exc("TypeError", "object of type '" \o v.t \o "' has no len()")

\* for m in v: the sequences of items the loop may go through, for the values that
\* can be iterated (a dict gives its member names, a str its characters)
Iterations(v) ==
    CASE v.t = "dict" -> {[n \in 1..Len(v.keys) |-> Str(Pieces(v.keys[n]))]}
      [] v.t = "str"  -> {[n \in 1..Chars(v.s) |-> Str(<<Ch(Concat(v.s), n)>>)]}
      [] v.t = "set"  -> Iterated(v.kids)
      [] OTHER        -> {v.kids}

\* for m in v of a value that cannot be iterated
NoIteration(v) == Exc("TypeError", "'" \o v.t \o "' object is not iterable")

\* a text built, or the exception raised on the way
Built(t) == [exc |-> NoExc, text |-> t]
Broke(e)    == [exc |-> e, text |-> <<>>]

\* "\n".join([f"- {m.get('title', 'Module')}" for m in modules]) from item n of the
\* items on: the texts it may be, or the exception of the first item without get
RECURSIVE module_lines(_, _)
module_lines(items, n) ==
    IF n > Len(items) THEN {Built(<<>>)}
    ELSE IF ~HasGet(items[n]) THEN {Broke(AttributeError(items[n]))}
    ELSE {IF lines.exc # NoExc THEN lines
          ELSE Built((IF n > 1 THEN <<"\n">> ELSE <<>>) \o <<"- ">> \o title \o lines.text) :
             title \in Format(Get(items[n], "title", Str(<<"Module">>))),
             lines \in module_lines(items, n + 1)}

module_list(modules) ==
    IF modules.t \in {"int", "bool", "NoneType"} THEN {Broke(NoIteration(modules))}
    ELSE UNION {module_lines(items, 1) : items \in Iterations(modules)}

\* quality_metrics: the four lines of a feedback that is not empty
quality_metrics(feedback) ==
    IF ~Truthy(feedback) THEN {Built(<<>>)}
    ELSE IF ~HasGet(feedback) THEN {Broke(AttributeError(feedback))}
    ELSE {Built(<<"Content Accuracy: ">> \o accuracy \o <<"/10", "\n", "Engagement Level: ">>
                \o engagement \o <<"/10", "\n", "Clarity: ">> \o clarity
                \o <<"/10", "\n", "Overall Quality: ">> \o quality \o <<"/10">>) :
             accuracy \in Format(Get(feedback, "content_accuracy", Str(<<"N/A">>))),
             engagement \in Format(Get(feedback, "engagement_level", Str(<<"N/A">>))),
             clarity \in Format(Get(feedback, "clarity", Str(<<"N/A">>))),
             quality \in Format(Get(feedback, "overall_quality", Str(<<"N/A">>)))}

\* the f-string of the summary around the module list and the quality metrics
SummaryText(state, course_metadata, modules, listed, metrics) ==
    {Built(<<"\n", "# Course Generation Complete: ">> \o title
           \o <<"\n", "\n", "## Course Overview", "\n">> \o description
           \o <<"\n", "\n", "## Target Audience", "\n">> \o target_audience
           \o <<"\n", "\n", "## Course Modules", "\n">> \o listed
           \o <<"\n", "\n", "## Course Statistics", "\n", "- Total Modules: ">>
           \o Decimal(PyLen(modules))
           \o <<"\n", "- Content Modules Created: ">> \o Decimal(2)
           \o <<"\n", "- Assessment Sets Created: ">>
           \o Decimal(PyLen(state.map["assessment_content"]))
           \o <<"\n", "- Resource Collections Created: ">>
           \o Decimal(PyLen(state.map["resources_content"]))
           \o <<"\n", "- Estimated Duration: ">> \o duration
           \o <<"\n", "\n", "## Quality Assessment", "\n">> \o metrics
           \o <<"\n", "\n", "All course materials have been generated and are ready for use. The course includes detailed content, assessments, and supplementary resources for each module.",
                "\n", "\n", "To export this course, you can save the complete state data which contains all course content and metadata.",
                "\n">>) :
        title \in Format(Get(course_metadata, "title", state.map["course_topic"])),
        description \in Format(Get(course_metadata, "description",
                                   Str(<<"A comprehensive course">>))),
        target_audience \in Format(Get(course_metadata, "target_audience",
                                       state.map["target_audience"])),
        duration \in Format(Get(course_metadata, "estimated_duration", Str(<<"Varies">>)))}

\* the text of the local variable summary: the texts it may be, or the exception
\* raised before it is built
summary(state) ==
    LET course_metadata == state.map["course_metadata"]
        feedback        == state.map["feedback"]
    IN  IF ~Sized(state.map["assessment_content"])
        THEN {Broke(NoLen(state.map["assessment_content"]))}
        ELSE IF ~Sized(state.map["resources_content"])
        THEN {Broke(NoLen(state.map["resources_content"]))}
        ELSE IF ~HasGet(course_metadata) THEN {Broke(AttributeError(course_metadata))}
        ELSE UNION {IF listed.exc # NoExc THEN {listed}
                    ELSE UNION {IF metrics.exc # NoExc THEN {metrics}
                                ELSE SummaryText(state, course_metadata,
                                                 Get(course_metadata, "modules", Arr(<<>>)),
                                                 listed.text, metrics.text) :
                                   metrics \in quality_metrics(feedback)} :
                       listed \in module_list(Get(course_metadata, "modules", Arr(<<>>)))}

\* the course_data that course_generator_summary writes to its file
summary_course_data(state) ==
    Obj(<<"metadata", "modules", "content", "assessments", "resources", "feedback">>,
        [k \in {"metadata", "modules", "content", "assessments", "resources", "feedback"} |->
            CASE k = "metadata"    -> state.map["course_metadata"]
              [] k = "modules"     -> team_outputs(state)
              [] k = "content"     -> module_content(state)
              [] k = "assessments" -> state.map["assessment_content"]
              [] k = "resources"   -> state.map["resources_content"]
              [] k = "feedback"    -> state.map["feedback"]])

\* datetime.now().strftime("%Y%m%d_%H%M%S"): the clock readings of the model
Timestamps == {"20250101_000000", "20251231_235959"}

\* what the file system may refuse: nothing, os.makedirs("courses") or open(...)
WriteFaults == {"none", "makedirs", "open"}

\* the file after json.dump raised on its way through course_data: it holds the
\* text written up to the value that could not be serialized, which is no JSON
\* document
PartFile == Val("partial", 0, <<>>, <<>>, <<>>, <<>>)

\* the try block that saves the course: the exception it ends with and the file
\* courses/course_<timestamp>.json afterwards (NoneV: there is none)
summary_write(course_data, timestamp, fault) ==
    CASE fault = "makedirs" ->
             [exc |-> Exc("PermissionError", "[Errno 13] Permission denied: 'courses'"),
              file |-> NoneV]
      [] fault = "open" ->
             [exc |-> Exc("PermissionError",
                          "[Errno 13] Permission denied: 'courses/course_" \o timestamp
                              \o ".json'"),
              file |-> NoneV]
      [] OTHER -> IF HasSet(course_data) THEN [exc |-> NotSerializable, file |-> PartFile]
                  ELSE [exc |-> NoExc, file |-> AsJson(course_data)]

file_message(written, timestamp) ==
    IF written.exc = NoExc
    THEN <<"\n", "Course data has been saved to: courses/course_" \o timestamp \o ".json">>
    ELSE <<"\n", "Note: Could not save course data to file: " \o written.exc.msg>>

\* course_generator_summary: the outcomes it may have.  exc: the exception it raises;
\* content: the content of the message it builds; file: the file it leaves; update:
\* the dict display {"messages": ..., **state}, in which the entries of state come
\* last
course_generator_summary(state) ==
    UNION {IF built.exc # NoExc
           THEN {[exc |-> built.exc, update |-> <<>>, content |-> <<>>, file |-> NoneV]}
           ELSE {[exc |-> NoExc,
                  update |-> [k \in {"messages"} \cup DOMAIN state.map |->
                                 IF k \in DOMAIN state.map THEN state.map[k]
                                 ELSE WithMessage(state,
                                          built.text \o file_message(
                                              summary_write(summary_course_data(state),
                                                            timestamp, fault), timestamp))],
                  content |-> built.text
                                  \o file_message(summary_write(summary_course_data(state),
                                                                timestamp, fault), timestamp),
                  file |-> summary_write(summary_course_data(state), timestamp, fault).file] :
                    timestamp \in Timestamps, fault \in WriteFaults} :
              built \in summary(state)}

\* the first exception of json.dumps over the values, in their order
RECURSIVE DumpsAll(_, _)
DumpsAll(vals, i) ==
    IF i > Len(vals) THEN NoExc
    ELSE IF HasSet(vals[i]) THEN NotSerializable
    ELSE DumpsAll(vals, i + 1)

\* course_metadata_creator writes the four team outputs into its prompt
course_metadata_creator_check(state) ==
    DumpsAll([n \in TeamNums |-> state.map[TeamOutputKey(n)]], 1)

\* next(iter(d.values())) of a dict that is not empty
FirstValue(d) == d.map[d.keys[1]]

\* quality_reviewer up to its model call: the samples it takes and their
\* serialization into the prompt
quality_reviewer_check(state) ==
    LET assessment_content == state.map["assessment_content"]
        resources_content  == state.map["resources_content"]
    IN  IF Truthy(assessment_content) /\ ~HasGet(assessment_content)
        THEN NoAttribute(assessment_content, "values")
        ELSE IF Truthy(resources_content) /\ ~HasGet(resources_content)
        THEN NoAttribute(resources_content, "values")
        ELSE DumpsAll(<<state.map["course_metadata"],
                        state.map["team1_module1"],
                        IF Truthy(assessment_content) THEN FirstValue(assessment_content)
                        ELSE EmptyDict,
                        IF Truthy(resources_content) THEN FirstValue(resources_content)
                        ELSE EmptyDict>>, 1)

\* quality_reviewer returns its feedback and a copy of the other channels
quality_reviewer_update(state, feedback_output) ==
    Ok([k \in Channels |->
           CASE k = "feedback" -> feedback_output
             [] k = "messages" ->
                  WithMessage(state, <<"Quality review completed with detailed feedback.">>)
             [] OTHER -> state.map[k]])

GraphStageBegin(s, state) ==
    CASE Tier(s) = "teams"     -> team_leader_check(state, TeamNum("enh", s))
      [] Tier(s) = "artifacts" -> content_creator_check(state, TeamNum("enh", s))
      [] s = "metadata"        -> course_metadata_creator_check(state)
      [] s = "quality_review"  -> quality_reviewer_check(state)
      [] OTHER                 -> NoExc

\* the returns a node may make once its reply is parsed
GraphStageEnd(s, state, parsed) ==
    CASE s = "manager"     -> {course_manager_update(state, parsed)}
      [] Tier(s) = "teams" -> {team_leader_update(state, TeamNum("enh", s), parsed)}
      [] s \in {"content1", "content2"} ->
             content_creator_update(state, TeamNum("enh", s), parsed)
      [] s = "assessment"  -> assessment_creator_update(state, 3, parsed)
      [] s = "resources"   -> resources_creator_update(state, 4, parsed)
      [] s = "metadata"    -> course_metadata_creator_update(state, parsed)
      [] s = "quality_review" -> {quality_reviewer_update(state, parsed)}

\* generate_course_metadata writes the four team outputs with json.dumps into its
\* prompt before it calls the model; the other stage functions of main.py format
\* their arguments as they are
MainStageBegin(s, state) ==
    IF s = "metadata"
       /\ \E n \in TeamNums :
              HasSet(Get(Get(state, TeamOutputKey(n), EmptyDict), TeamStage(n), EmptyDict))
    THEN NotSerializable
    ELSE NoExc

\* what a stage does before it calls the model, and after it parsed the reply
StageBegin(f, s, state) ==
    IF f = "main" THEN MainStageBegin(s, state) ELSE GraphStageBegin(s, state)

StageEnd(f, s, state, parsed) ==
    IF f = "main" THEN {MainStageEnd(s, parsed)} ELSE GraphStageEnd(s, state, parsed)

\* the stages that call the generation model; course_generator_summary formats
\* its message from the state
CallsModel(s) == s # "course_summary"


\* the channels in the order class State declares them, which is the order of the
\* state a node is given
ChannelOrder ==
    <<"messages", "course_topic", "difficulty_level", "target_audience", "learning_goals",
      "manager_output", "team_output_1", "team_output_2", "team_output_3", "team_output_4",
      "team1_module1", "team2_module1", "assessment_content", "resources_content",
      "feedback", "course_metadata">>

\* the entries of course_data in the order generate_course_async assigns them
CourseDataOrder ==
    <<"search_results", "manager_output", "team_output_1", "team_output_2",
      "team_output_3", "team_output_4", "team1_module1", "team2_module1",
      "assessment_content", "resources_content", "metadata">>

\* the order of the names once the names keys are stored: a new entry of
\* course_data goes last, the channels of the graph keep the order of State
StateOrder(f, state, keys) ==
    IF f = "main"
    THEN state.keys \o SelectSeq(CourseDataOrder, LAMBDA k : k \in keys \ DOMAIN state.map)
    ELSE SelectSeq(ChannelOrder, LAMBDA k : k \in DOMAIN state.map \cup keys)

\* course_data[k] = v for the entries of an update (main.py); in the graph a node's
\* update reaches only the channels the State schema declares, and the messages
\* channel takes it through its reducer
ApplyUpdate(f, state, update) ==
    LET keys == IF f = "main" THEN DOMAIN update
                ELSE DOMAIN update \cap Channels
    IN  Obj(StateOrder(f, state, keys),
            [k \in DOMAIN state.map \cup keys |->
                IF k \notin keys THEN state.map[k]
                ELSE IF f = "enh" /\ k = "messages"
                THEN add_messages(state.map[k], update[k])
                ELSE update[k]])

\* the updates of one tier, applied in the order of its stages
RECURSIVE ApplyUpdates(_, _, _)
ApplyUpdates(f, state, updates) ==
    IF updates = <<>> THEN state
    ELSE ApplyUpdates(f, ApplyUpdate(f, state, Head(updates)), Tail(updates))

BoolV(b) == IF b THEN TrueV ELSE FalseV

\* len(a) >= 1 and len(b) >= 1 and ...: the exception when len() of an operand that
\* is reached raises
RECURSIVE AllNonEmpty(_, _)
AllNonEmpty(vals, i) ==
    IF i > Len(vals) THEN [all |-> TRUE, exc |-> NoExc]
    ELSE IF ~Sized(vals[i]) THEN [all |-> FALSE, exc |-> NoLen(vals[i])]
    ELSE IF PyLen(vals[i]) >= 1 THEN AllNonEmpty(vals, i + 1)
    ELSE [all |-> FALSE, exc |-> NoExc]

check_content_readiness(state) ==
    LET all_ready == AllNonEmpty(<<Get(state, "team1_module1", EmptyDict),
                                   Get(state, "team2_module1", EmptyDict),
                                   Get(state, "assessment_content", EmptyDict),
                                   Get(state, "resources_content", EmptyDict)>>, 1)
    IN  IF all_ready.exc # NoExc THEN Failed(all_ready.exc)
        ELSE Ok(("messages" :>
                    WithMessage(state,
                        IF all_ready.all
                        THEN <<"All content samples are ready. Proceeding to metadata creation.">>
                        ELSE <<"Still waiting for content samples to be ready.">>))
                @@ ("all_content_ready" :> BoolV(all_ready.all)))

\* the conditional edge after check_readiness: True -> metadata_creator, False -> END
route_after_readiness(state) ==
    IF Truthy(Get(state, "all_content_ready", FalseV)) THEN "metadata" ELSE "end"

\* [msg.content for msg in final_state.get("messages", [])]
messages_list(final_state) ==
    LET messages == Get(final_state, "messages", Arr(<<>>)).kids
    IN  Arr([i \in 1..Len(messages) |-> Str(messages[i].s)])

\* what generate_expert_course returns from the final state
course_document(final_state) ==
    Obj(<<"conversation", "metadata", "modules", "content", "assessments", "resources",
          "feedback">>,
        [k \in {"conversation", "metadata", "modules", "content", "assessments",
                "resources", "feedback"} |->
            CASE k = "conversation" -> messages_list(final_state)
              [] k = "metadata"    -> Get(final_state, "course_metadata", EmptyDict)
              [] k = "modules"     -> Get(final_state, "team_outputs", EmptyDict)
              [] k = "content"     -> Get(final_state, "module_content", EmptyDict)
              [] k = "assessments" -> Get(final_state, "assessment_content", EmptyDict)
              [] k = "resources"   -> Get(final_state, "resources_content", EmptyDict)
              [] k = "feedback"    -> Get(final_state, "feedback", EmptyDict)])

\* the job record of st.session_state.jobs
NewJob == [status |-> "in_progress", progress |-> 0, current_stage |-> "Initializing",
           completed_at |-> FALSE, course_data |-> EmptyDict]

NoJob == [status |-> "none", progress |-> 0, current_stage |-> "", completed_at |-> FALSE,
          course_data |-> EmptyDict]

Running == [kind |-> "running", exc |-> NoExc, doc |-> NoneV, team_outputs |-> NoneV]

NextPhase(f, t) ==
    CASE t = "manager"   -> "teams"
      [] t = "teams"     -> "artifacts"
      [] t = "artifacts" -> IF f = "main" THEN "metadata" ELSE "readiness"
      [] t = "metadata"  -> IF f = "main" THEN "save" ELSE "quality_review"
      [] t = "quality_review" -> "course_summary"
      [] t = "course_summary" -> "end"


(***************************************************************************)
(* The run: Init is the state after the job record is created (main.py)    *)
(* or after the initialize node (graph).                                   *)
(***************************************************************************)
\* the state of the graph after its first node, initialize
InitialState(args) ==
    ApplyUpdate("enh",
                initial_state(args.course_topic, args.difficulty, args.target_audience,
                              args.learning_goals),
                initialize_state(initial_state(args.course_topic, args.difficulty,
                                               args.target_audience, args.learning_goals)))

NoParse ==
    /\ text = <<>> /\ pc = "none" /\ json_text = <<>> /\ model_response = InvokeError
    /\ result = NoResult /\ botCalls = 0

Init ==
    /\ file \in {"main", "enh"}
    /\ NoParse
    /\ phase = "manager"
    /\ st = [s \in Stages |-> "idle"]
    /\ stage_exc = [s \in Stages |-> NoExc]
    /\ pending = [s \in Stages |-> <<>>]
    /\ NoNode /\ NoSearch
    /\ run_state = IF file = "main" THEN EmptyDict ELSE InitialState(course_args)
    /\ modelCalls = [s \in Stages |-> 0]
    /\ repairCalls = [s \in Stages |-> 0]
    /\ job = IF file = "main" THEN NewJob ELSE NoJob
    /\ saved_course = NoneV
    /\ invoke_result = Running
    /\ faults = 0
    /\ session_course_data = EmptyDict
    /\ edits = 0

\* Init of a main.py run with the web search enabled or disabled
InitSearch ==
    /\ file = "main"
    /\ enhanced_search \in BOOLEAN
    /\ NoParse /\ NoNode
    /\ phase = IF enhanced_search THEN "search" ELSE "manager"
    /\ st = [s \in Stages |-> "idle"]
    /\ stage_exc = [s \in Stages |-> NoExc]
    /\ pending = [s \in Stages |-> <<>>]
    /\ run_state = EmptyDict
    /\ modelCalls = [s \in Stages |-> 0]
    /\ repairCalls = [s \in Stages |-> 0]
    /\ job = NewJob
    /\ saved_course = NoneV
    /\ invoke_result = Running
    /\ faults = 0
    /\ session_course_data = EmptyDict
    /\ edits = 0

Ended(s) == st[s] \in {"done", "failed"}

\* what entering stage s gives: the stage raised before its model call, or the call
\* is in flight, or (a stage without a model call) it returned
Entered(f, s, state) ==
    IF ~CallsModel(s)
    THEN {[st |-> IF r.exc = NoExc THEN "done" ELSE "failed", exc |-> r.exc, calls |-> 0,
           update |-> r.update] : r \in course_generator_summary(state)}
    ELSE LET e == StageBegin(f, s, state) IN
         {IF e # NoExc THEN [st |-> "failed", exc |-> e, calls |-> 0, update |-> <<>>]
          ELSE [st |-> "running", exc |-> NoExc, calls |-> 1, update |-> <<>>]}

\* a dispatcher that enters a stage without waiting for the tiers before it
StageStartEager(s) ==
    /\ TierRank(phase) <= TierRank(Tier(s))
    /\ st[s] = "idle"
    /\ \E r \in Entered(file, s, run_state) :
         /\ st' = [st EXCEPT ![s] = r.st]
         /\ stage_exc' = [stage_exc EXCEPT ![s] = r.exc]
         /\ modelCalls' = [modelCalls EXCEPT ![s] = @ + r.calls]
         /\ pending' = [pending EXCEPT ![s] = r.update]
    /\ UNCHANGED <<phase, run_state, repairCalls, saved_course, invoke_result>>
    /\ UNCHANGED <<job, faults, session_course_data, edits>>
    /\ UNCHANGED <<pvars, nvars>>

\* a stage is entered: it checks its inputs and issues its generation-model call.
\* The coroutines of main.py run one after the other in task order; the nodes of
\* one superstep of the graph run on threads.
StageStart(s) ==
    /\ phase = Tier(s)
    /\ st[s] = "idle"
    /\ file = "main" => \A t \in StagesOf(phase) : Order(t) < Order(s) => Ended(t)
    /\ \E r \in Entered(file, s, run_state) :
         /\ st' = [st EXCEPT ![s] = r.st]
         /\ stage_exc' = [stage_exc EXCEPT ![s] = r.exc]
         /\ modelCalls' = [modelCalls EXCEPT ![s] = @ + r.calls]
         /\ pending' = [pending EXCEPT ![s] = r.update]
    /\ job' = IF file = "main" /\ s = "manager"
              THEN [job EXCEPT !.current_stage = "Planning course structure", !.progress = 30]
              ELSE job
    /\ UNCHANGED <<phase, run_state, repairCalls, saved_course, invoke_result>>
    /\ UNCHANGED <<faults, session_course_data, edits>>
    /\ UNCHANGED <<pvars, nvars>>

\* the stage's end once parse_json has returned or raised
StageResult(f, s, state, parsed) ==
    IF parsed.outcome = "raise" THEN {Failed(parsed.err)}
    ELSE StageEnd(f, s, state, parsed.val)

\* the generation model answers (or model.invoke raises): parse_json runs on the
\* answer; either the stage runs to its end, or parse_json calls json_maker_bot and
\* the stage waits for the repair model
StageReply(s) ==
    /\ phase = Tier(s)
    /\ st[s] = "running"
    /\ \E reply \in {r \in StageReplies(s) : faults + Fault(s, r) <= MaxFaults} :
         /\ faults' = faults + Fault(s, reply)
         /\ \E b \in {Invoke(file, reply)} :
              IF b.done
              THEN \E o \in StageResult(file, s, run_state, b.result) :
                     /\ st' = [st EXCEPT ![s] = IF o.exc = NoExc THEN "done" ELSE "failed"]
                     /\ stage_exc' = [stage_exc EXCEPT ![s] = o.exc]
                     /\ pending' = [pending EXCEPT ![s] = o.update]
                     /\ UNCHANGED repairCalls
              ELSE /\ st' = [st EXCEPT ![s] = "repairing"]
                   /\ repairCalls' = [repairCalls EXCEPT ![s] = @ + 1]
                   /\ UNCHANGED <<stage_exc, pending>>
    /\ UNCHANGED <<phase, run_state, modelCalls, job, saved_course, invoke_result>>
    /\ UNCHANGED <<session_course_data, edits>>
    /\ UNCHANGED <<pvars, nvars>>

\* a json_maker_bot whose unusable answer is sent to the repair model once more
StageRepairRetry(s) ==
    /\ phase = Tier(s)
    /\ st[s] = "repairing"
    /\ \E repair \in RepairReplies(s) :
         \E r \in {parse_json_resume(file, repair)} :
           IF r.outcome = "raise" /\ repairCalls[s] < 2
           THEN /\ repairCalls' = [repairCalls EXCEPT ![s] = @ + 1]
                /\ UNCHANGED <<st, stage_exc, pending>>
           ELSE \E o \in StageResult(file, s, run_state, r) :
                  /\ st' = [st EXCEPT ![s] = IF o.exc = NoExc THEN "done" ELSE "failed"]
                  /\ stage_exc' = [stage_exc EXCEPT ![s] = o.exc]
                  /\ pending' = [pending EXCEPT ![s] = o.update]
                  /\ UNCHANGED repairCalls
    /\ UNCHANGED <<phase, run_state, modelCalls, job, saved_course, invoke_result>>
    /\ UNCHANGED <<faults, session_course_data, edits>>
    /\ UNCHANGED <<pvars, nvars>>

\* the repair model answers inside json_maker_bot (or its model.invoke raises):
\* parse_json ends and the stage runs to its end
StageRepair(s) ==
    /\ phase = Tier(s)
    /\ st[s] = "repairing"
    /\ \E repair \in RepairReplies(s) :
         \E o \in StageResult(file, s, run_state, parse_json_resume(file, repair)) :
           /\ st' = [st EXCEPT ![s] = IF o.exc = NoExc THEN "done" ELSE "failed"]
           /\ stage_exc' = [stage_exc EXCEPT ![s] = o.exc]
           /\ pending' = [pending EXCEPT ![s] = o.update]
    /\ UNCHANGED <<phase, run_state, modelCalls, repairCalls, job, saved_course,
                   invoke_result>>
    /\ UNCHANGED <<faults, session_course_data, edits>>
    /\ UNCHANGED <<pvars, nvars>>

\* an except clause that stores the course data gathered so far in the job record
PropagatePartial(j, e) ==
    /\ phase' = "finished"
    /\ job' = IF file = "main"
              THEN [j EXCEPT !.status = "failed", !.current_stage = "Error: " \o e.msg,
                             !.course_data = run_state]
              ELSE j
    /\ invoke_result' = IF file = "main" THEN invoke_result
                        ELSE [kind |-> "raised", exc |-> e, doc |-> NoneV,
                              team_outputs |-> NoneV]

\* the exception reaches the caller: the except clause of generate_course_async
\* marks the job failed; graph.invoke raises out of generate_expert_course
Propagate(j, e) ==
    /\ phase' = "finished"
    /\ job' = IF file = "main"
              THEN [j EXCEPT !.status = "failed", !.current_stage = "Error: " \o e.msg]
              ELSE j
    /\ invoke_result' = IF file = "main" THEN invoke_result
                        ELSE [kind |-> "raised", exc |-> e, doc |-> NoneV,
                              team_outputs |-> NoneV]

\* generate_course_async enters the web search step
SearchStart ==
    /\ file = "main" /\ enhanced_search
    /\ phase = "search"
    /\ phase' = "searching"
    /\ job' = [job EXCEPT !.current_stage = "Enhancing with web search", !.progress = 10]
    /\ UNCHANGED <<st, stage_exc, pending, run_state, modelCalls, repairCalls, saved_course,
                   invoke_result, faults, session_course_data, edits>>
    /\ UNCHANGED <<pvars, nvars>>

\* the search settings the run's remaining budget of faults admits
SearchSettings(budget) ==
    {x \in [response : SearchResponses, inputs : [1..MaxResults -> ResultInputs]] :
        /\ SearchFaults(x.response, x.inputs) <= budget
        /\ \A i \in 1..MaxResults :
              (i > Len(x.response.results) \/ x.response.results[i] # WithUrl)
                  => x.inputs[i] = CleanInput}

\* web_search_enhancer returns and its result is stored
WebSearch ==
    /\ file = "main"
    /\ phase = "searching"
    /\ \E x \in SearchSettings(MaxFaults - faults) :
         /\ faults' = faults + SearchFaults(x.response, x.inputs)
         /\ \E r \in {web_search_enhancer(x.response, x.inputs)} :
            IF r.exc = NoExc
            THEN /\ run_state' = ApplyUpdate(file, run_state, r.update)
                 /\ phase' = "manager"
                 /\ job' = [job EXCEPT !.progress = 20]
                 /\ UNCHANGED invoke_result
            ELSE /\ Propagate(job, r.exc)
                 /\ UNCHANGED run_state
    /\ UNCHANGED <<st, stage_exc, pending, modelCalls, repairCalls, saved_course>>
    /\ UNCHANGED <<session_course_data, edits>>
    /\ UNCHANGED <<pvars, nvars>>

\* what the stages of a tier returned, in the order of the stages
TierUpdates(t) ==
    [i \in 1..Cardinality(StagesOf(t)) |-> pending[CHOOSE s \in StagesOf(t) : Order(s) = i]]

\* two nodes of one superstep write the same LastValue channel
Conflict(t) ==
    \E s1, s2 \in StagesOf(t) :
        s1 # s2 /\ DOMAIN pending[s1] \cap DOMAIN pending[s2]
                       \cap (StateKeys \cup IdentityKeys) # {}

\* job progress after a tier of generate_course_async
JobAfter(j, t) ==
    CASE t = "manager" ->
             [j EXCEPT !.progress = 40, !.current_stage = "Creating modules and content"]
      [] t = "teams" ->
             [j EXCEPT !.progress = 70, !.current_stage = "Creating detailed content"]
      [] t = "artifacts" ->
             [j EXCEPT !.progress = 85, !.current_stage = "Finalizing course structure"]
      [] OTHER -> j

\* a join that goes on to the next tier once every stage of the tier has ended,
\* whether it returned or raised
JoinLenient ==
    /\ phase \in Tiers
    /\ \A s \in StagesOf(phase) : Ended(s)
    /\ run_state' = ApplyUpdates(file, run_state, TierUpdates(phase))
    /\ phase' = NextPhase(file, phase)
    /\ job' = IF file = "main" THEN JobAfter(job, phase) ELSE job
    /\ UNCHANGED <<st, stage_exc, pending, modelCalls, repairCalls, saved_course,
                   invoke_result, faults, session_course_data, edits>>
    /\ UNCHANGED <<pvars, nvars>>

\* a join that goes on as soon as one stage of the tier has returned
JoinRace ==
    /\ phase \in Tiers
    /\ \E s \in StagesOf(phase) : st[s] = "done"
    /\ run_state' = ApplyUpdates(file, run_state, TierUpdates(phase))
    /\ phase' = NextPhase(file, phase)
    /\ job' = IF file = "main" THEN JobAfter(job, phase) ELSE job
    /\ UNCHANGED <<st, stage_exc, pending, modelCalls, repairCalls, saved_course,
                   invoke_result, faults, session_course_data, edits>>
    /\ UNCHANGED <<pvars, nvars>>

\* every stage of the tier returned: the gather (main.py) or the superstep (graph)
\* ends and the results are stored
Join ==
    /\ phase \in Tiers
    /\ \A s \in StagesOf(phase) : st[s] = "done"
    /\ LET merged == ApplyUpdates(file, run_state, TierUpdates(phase))
           e == IF file = "enh" /\ Conflict(phase)
                THEN Exc("InvalidUpdateError", "Can receive only one value per step.")
                ELSE IF file = "main" /\ phase = "teams" THEN MainModuleInputs(merged)
                ELSE NoExc
       IN  IF e = NoExc
           THEN /\ run_state' = merged
                /\ phase' = NextPhase(file, phase)
                /\ job' = IF file = "main" THEN JobAfter(job, phase) ELSE job
                /\ UNCHANGED invoke_result
           ELSE /\ run_state' = IF file = "main" THEN merged ELSE run_state
                /\ Propagate(IF file = "main" THEN [job EXCEPT !.progress = 60] ELSE job, e)
    /\ UNCHANGED <<st, stage_exc, pending, modelCalls, repairCalls, saved_course>>
    /\ UNCHANGED <<faults, session_course_data, edits>>
    /\ UNCHANGED <<pvars, nvars>>

\* a dispatcher that answers a stage's failure by entering the stage again
AbortRetry ==
    /\ phase \in Tiers
    /\ \E s \in StagesOf(phase) :
        /\ st[s] = "failed"
        /\ st' = [st EXCEPT ![s] = "idle"]
        /\ stage_exc' = [stage_exc EXCEPT ![s] = NoExc]
    /\ UNCHANGED <<phase, pending, run_state, modelCalls, repairCalls, job, saved_course,
                   invoke_result, faults, session_course_data, edits>>
    /\ UNCHANGED <<pvars, nvars>>

\* a stage raised.  main.py: the gather re-raises the first exception once every
\* task of the list has run.  Graph: the superstep is abandoned.
Abort ==
    /\ phase \in Tiers
    /\ file = "main" => \A s \in StagesOf(phase) : Ended(s)
    /\ \E s \in StagesOf(phase) :
        /\ st[s] = "failed"
        /\ file = "main" => \A t \in StagesOf(phase) : st[t] = "failed" => Order(s) <= Order(t)
        /\ Propagate(job, stage_exc[s])
    /\ UNCHANGED <<st, stage_exc, pending, run_state, modelCalls, repairCalls, saved_course>>
    /\ UNCHANGED <<faults, session_course_data, edits>>
    /\ UNCHANGED <<pvars, nvars>>

\* the check_readiness node and the conditional edge behind it (graph)
CheckReadiness ==
    /\ file = "enh"
    /\ phase = "readiness"
    /\ LET r == check_content_readiness(run_state) IN
       IF r.exc = NoExc
       THEN /\ run_state' = ApplyUpdate(file, run_state, r.update)
            /\ phase' = route_after_readiness(run_state')
            /\ UNCHANGED <<job, invoke_result>>
       ELSE /\ Propagate(job, r.exc)
            /\ UNCHANGED run_state
    /\ UNCHANGED <<st, stage_exc, pending, modelCalls, repairCalls, saved_course>>
    /\ UNCHANGED <<faults, session_course_data, edits>>
    /\ UNCHANGED <<pvars, nvars>>

\* END is reached: graph.invoke returns and generate_expert_course builds its result
ReturnCourse ==
    /\ file = "enh"
    /\ phase = "end"
    /\ phase' = "finished"
    /\ invoke_result' = [kind |-> "returned", exc |-> NoExc,
                         doc |-> course_document(run_state),
                         team_outputs |-> team_outputs(run_state)]
    /\ UNCHANGED <<st, stage_exc, pending, run_state, modelCalls, repairCalls, job,
                   saved_course>>
    /\ UNCHANGED <<faults, session_course_data, edits>>
    /\ UNCHANGED <<pvars, nvars>>

\* job_id = str(uuid.uuid4()), written here as a fixed text
JobId == "job1"

\* open(filename, "w") raises when the courses directory is not there
SaveError ==
    Exc("FileNotFoundError",
        "[Errno 2] No such file or directory: 'courses/course_" \o JobId \o ".json'")

\* with open(filename, "w") as f: json.dump(course_data, f, indent=2).  opened:
\* whether open() succeeded.  Gives the exception raised and the file afterwards.
WriteCourse(course_data, opened, before) ==
    IF ~opened THEN [exc |-> SaveError, file |-> before]
    ELSE IF HasSet(course_data) THEN [exc |-> NotSerializable, file |-> PartFile]
    ELSE [exc |-> NoExc, file |-> AsJson(course_data)]

\* a generate_course_async that marks the job completed before it saves the course
CompleteThenSave ==
    /\ file = "main"
    /\ phase = "save"
    /\ phase' = "finished"
    /\ \E opened \in BOOLEAN :
         \E w \in {WriteCourse(run_state, opened, saved_course)} :
           /\ saved_course' = w.file
           /\ job' = [status |-> IF w.exc = NoExc THEN "completed" ELSE "failed",
                      progress |-> 100,
                      current_stage |-> IF w.exc = NoExc THEN "Course generation complete"
                                        ELSE "Error: " \o w.exc.msg,
                      completed_at |-> TRUE, course_data |-> run_state]
           /\ session_course_data' = run_state
    /\ UNCHANGED <<st, stage_exc, pending, run_state, modelCalls, repairCalls, invoke_result>>
    /\ UNCHANGED <<faults, edits>>
    /\ UNCHANGED <<pvars, nvars>>

\* generate_course_async saves the course and marks the job completed; when
\* save_course_to_file raises, the except clause marks the job failed
SaveAndComplete ==
    /\ file = "main"
    /\ phase = "save"
    /\ \E opened \in BOOLEAN :
         \E w \in {WriteCourse(run_state, opened, saved_course)} :
           /\ saved_course' = w.file
           /\ IF w.exc = NoExc
              THEN /\ phase' = "finished"
                   /\ job' = [status |-> "completed", progress |-> 100,
                              current_stage |-> "Course generation complete",
                              completed_at |-> TRUE, course_data |-> run_state]
                   /\ session_course_data' = run_state
              ELSE /\ Propagate(job, w.exc)
                   /\ UNCHANGED session_course_data
    /\ UNCHANGED <<st, stage_exc, pending, run_state, modelCalls, repairCalls, invoke_result>>
    /\ UNCHANGED <<faults, edits>>
    /\ UNCHANGED <<pvars, nvars>>

\* the most forms of the edit pages submitted after a run
MaxEdits == 1

\* the text fields of the form below its title, and its fields of lines
MetadataTexts == {"description", "target_audience", "estimated_duration",
                  "instructional_approach", "authors_note"}

\* the options of the difficulty selectbox
DifficultyLevels == {"Beginner", "Intermediate", "Advanced", "Expert"}

\* the form is shown when course_data.get("metadata", {}) is not empty
Editable(stored) == Truthy(stored)

\* what st.text_input and st.text_area give back for the value v when the user
\* leaves the field as shown: v cast to str; for None it is None or 'None',
\* according to the release of Streamlit
Shown(v) ==
    IF v.t = "str" THEN {v}
    ELSE IF v.t = "NoneType" THEN {NoneV, Str(<<"None">>)}
    ELSE {Str(Pieces(Concat(t))) : t \in Repr(v)}

\* "\n".join(items) from item n on: the text, or the TypeError of the first item
\* that is no str
RECURSIVE JoinedFrom(_, _)
JoinedFrom(items, n) ==
    IF n > Len(items) THEN Built("")
    ELSE IF items[n].t # "str"
    THEN Broke(Exc("TypeError", "sequence item " \o Concat(Decimal(n - 1))
                       \o ": expected str instance, " \o items[n].t \o " found"))
    ELSE IF JoinedFrom(items, n + 1).exc # NoExc THEN JoinedFrom(items, n + 1)
    ELSE Built((IF n > 1 THEN "\n" ELSE "") \o Concat(items[n].s)
               \o JoinedFrom(items, n + 1).text)

\* "\n".join(v): the texts it may be
Joined(v) ==
    IF v.t \in {"int", "bool", "NoneType"}
    THEN {Broke(Exc("TypeError", "can only join an iterable"))}
    ELSE {JoinedFrom(items, 1) : items \in Iterations(v)}

\* t.split("\n"): cur is the line being read
RECURSIVE Split(_, _)
Split(t, cur) ==
    IF t = "" THEN <<cur>>
    ELSE IF Ch(t, 1) = "\n" THEN <<cur>> \o Split(SubSeq(t, 2, Len(t)), "")
    ELSE Split(SubSeq(t, 2, Len(t)), cur \o Ch(t, 1))

\* t.rstrip() and t.strip() of a text of characters: spaces and line breaks go
RECURSIVE TrimEnd(_)
TrimEnd(t) ==
    IF t # "" /\ Ch(t, Len(t)) \in {" ", "\n"} THEN TrimEnd(SubSeq(t, 1, Len(t) - 1)) ELSE t

Trimmed(t) == TrimEnd(SubSeq(t, SpanEnd(t, 1, {" ", "\n"}), Len(t)))

\* [x.strip() for x in t.split("\n") if x.strip()]
Lines(t) ==
    LET kept == SelectSeq(Split(t, ""), LAMBDA x : Trimmed(x) # "")
    IN  Arr([i \in 1..Len(kept) |-> Str(Pieces(Trimmed(kept[i])))])

\* the outcome of the form: the exception it stops with, or updated_metadata
FormRaised(e) == [exc |-> e, value |-> NoneV]
FormValue(v)  == [exc |-> NoExc, value |-> v]

\* the title and description fields of the modules from item n on, as the form
\* shows them: <<title, description>> for each, or the exception of the first
\* module without get
RECURSIVE module_fields(_, _)
module_fields(items, n) ==
    IF n > Len(items) THEN {[exc |-> NoExc, kids |-> <<>>]}
    ELSE IF ~HasGet(items[n]) THEN {[exc |-> AttributeError(items[n]), kids |-> <<>>]}
    ELSE {IF others.exc # NoExc THEN others
          ELSE [exc |-> NoExc, kids |-> << <<shown_title, shown_description>> >> \o others.kids] :
             shown_title \in Shown(Get(items[n], "title", Str(<<>>))),
             shown_description \in Shown(Get(items[n], "description", Str(<<>>))),
             others \in module_fields(items, n + 1)}

\* [{"title": title, "description": description} for ... if title.strip()] from
\* field n on
RECURSIVE updated_modules(_, _)
updated_modules(fields, n) ==
    IF n > Len(fields) THEN FormValue(Arr(<<>>))
    ELSE IF fields[n][1].t # "str" THEN FormRaised(NoAttribute(fields[n][1], "strip"))
    ELSE IF updated_modules(fields, n + 1).exc # NoExc THEN updated_modules(fields, n + 1)
    ELSE IF Trimmed(Concat(fields[n][1].s)) = "" THEN updated_modules(fields, n + 1)
    ELSE FormValue(Arr(<<Obj(<<"title", "description">>,
                             ("title" :> fields[n][1]) @@ ("description" :> fields[n][2]))>>
                       \o updated_modules(fields, n + 1).value.kids))

\* updated_metadata once the form was built and submitted
updated_metadata(stored, title, texts, prerequisites, learning_outcomes, modules) ==
    Obj(<<"title", "description", "target_audience", "difficulty_level",
          "estimated_duration", "instructional_approach", "prerequisites",
          "learning_outcomes", "authors_note", "modules">>,
        [k \in MetadataTexts \cup {"title", "difficulty_level", "prerequisites",
                                   "learning_outcomes", "modules"} |->
            CASE k = "title" -> Str(title)
              [] k = "difficulty_level" ->
                     IF \E level \in DifficultyLevels :
                            PyEq(Get(stored, k, NoneV), Str(<<level>>))
                     THEN Str(<<CHOOSE level \in DifficultyLevels :
                                    PyEq(Get(stored, k, NoneV), Str(<<level>>))>>)
                     ELSE Str(<<"Intermediate">>)
              [] k = "prerequisites" -> Lines(prerequisites)
              [] k = "learning_outcomes" -> Lines(learning_outcomes)
              [] k = "modules" -> modules
              [] OTHER -> texts[k]])

\* the form of edit_metadata.py built from the stored metadata and submitted by a
\* user who typed the title and left the other fields as shown: the outcomes it
\* may have (an exception while the form is built or the submission handled, or
\* updated_metadata)
Updated(stored, title) ==
    IF ~HasGet(stored) THEN {FormRaised(AttributeError(stored))}
    ELSE UNION {
        IF prerequisites.exc # NoExc THEN {FormRaised(prerequisites.exc)}
        ELSE UNION {
            IF learning_outcomes.exc # NoExc THEN {FormRaised(learning_outcomes.exc)}
            ELSE IF Get(stored, "modules", Arr(<<>>)).t \in {"int", "bool", "NoneType"}
            THEN {FormRaised(NoIteration(Get(stored, "modules", Arr(<<>>))))}
            ELSE UNION {UNION {
                IF fields.exc # NoExc THEN {FormRaised(fields.exc)}
                ELSE IF updated_modules(fields.kids, 1).exc # NoExc
                THEN {updated_modules(fields.kids, 1)}
                ELSE {FormValue(updated_metadata(stored, title, texts, prerequisites.text,
                                                 learning_outcomes.text,
                                                 updated_modules(fields.kids, 1).value)) :
                         texts \in {f \in [MetadataTexts ->
                                              UNION {Shown(Get(stored, k, Str(<<>>))) :
                                                        k \in MetadataTexts}] :
                                       \A k \in MetadataTexts :
                                           f[k] \in Shown(Get(stored, k, Str(<<>>)))}} :
                   fields \in module_fields(items, 1)} :
                      items \in Iterations(Get(stored, "modules", Arr(<<>>)))} :
               learning_outcomes \in Joined(Get(stored, "learning_outcomes", Arr(<<>>)))} :
           prerequisites \in Joined(Get(stored, "prerequisites", Arr(<<>>)))}

\* the metadata page (src/pages/edit_metadata.py), reached from the details page of
\* a completed course, whose button sets editing_metadata: the form is submitted.
\* load_course_data gives the session's course data, which is the dict the job
\* record holds; the handler stores updated_metadata in it and save_course_data
\* rewrites the session entry and the file, showing an error when the write
\* raises.  When the form raises, nothing is stored.  The module page
\* (src/pages/edit_module.py) shows its form only when the session holds
\* editing_module, which no page sets: its handler does not run.
SaveCourseData ==
    /\ file = "main"
    /\ phase = "finished"
    /\ job.status = "completed"
    /\ edits < MaxEdits
    /\ Truthy(session_course_data)
    /\ Editable(Get(session_course_data, "metadata", EmptyDict))
    /\ \E opened \in BOOLEAN :
         \E updated \in Updated(Get(session_course_data, "metadata", EmptyDict), <<"y">>) :
           /\ updated.exc = NoExc
           /\ \E course_data \in {PutIn(session_course_data, "metadata", updated.value)} :
                /\ session_course_data' = course_data
                /\ job' = [job EXCEPT !.course_data = course_data]
                /\ saved_course' = WriteCourse(course_data, opened, saved_course).file
    /\ edits' = edits + 1
    /\ UNCHANGED <<phase, st, stage_exc, pending, run_state, modelCalls, repairCalls,
                   invoke_result, faults>>
    /\ UNCHANGED <<pvars, nvars>>

Next ==
    \/ \E s \in Stages : StageStart(s)
    \/ \E s \in Stages : StageReply(s)
    \/ \E s \in Stages : StageRepair(s)
    \/ Join
    \/ Abort
    \/ CheckReadiness
    \/ ReturnCourse
    \/ SaveAndComplete
    \/ SaveCourseData

Spec == Init /\ [][Next]_vars

\* a run of generate_course_async from the submitted form on
NextSearch ==
    \/ SearchStart
    \/ WebSearch
    \/ \E s \in Stages : StageStart(s)
    \/ \E s \in Stages : StageReply(s)
    \/ \E s \in Stages : StageRepair(s)
    \/ Join
    \/ Abort
    \/ SaveAndComplete
    \/ SaveCourseData

SpecSearch == InitSearch /\ [][NextSearch]_vars

(***************************************************************************)
(* Node functions of the graph applied on their own: initialize_state to   *)
(* the initial state of generate_expert_course for arguments of a small    *)
(* set, and course_generator_summary to states in which the stages before  *)
(* it have stored their outputs.                                           *)
(***************************************************************************)
Topics == {<<"t">>, <<"t", " ", "for", " ", "t">>, <<"t", " ", "with", " ", "t">>,
           <<"t", ".", "t">>, <<"plat", "for", "m">>, <<"T", " ", "FOR", " ", "t">>,
           <<"t", " ", "With", " ", "t">>}

Audiences == {<<"a">>, <<"a", ".", "a">>}

GoalLists == {<< <<"g">> >>, << <<"g">>, <<"g">> >>, << <<"g", ",", " ", "g">> >>, <<>>}

CourseArgs ==
    [course_topic : Topics, difficulty : {<<Capitalize(l)>> : l \in Levels},
     target_audience : Audiences, learning_goals : GoalLists]

NoUpdate == [exc |-> NoExc, update |-> <<>>, course_data |-> NoneV, content |-> <<>>,
             file |-> NoneV]

InitNode ==
    /\ file = "enh"
    /\ NoParse /\ NoRun /\ NoSearch
    /\ course_args \in CourseArgs
    /\ node = "start"
    /\ node_state = initial_state(course_args.course_topic, course_args.difficulty,
                                  course_args.target_audience, course_args.learning_goals)
    /\ node_update = NoUpdate

\* the graph's first node runs on the initial state
InitializeState ==
    /\ node = "start"
    /\ node' = "initialize"
    /\ node_update' = [NoUpdate EXCEPT !.update = initialize_state(node_state)]
    /\ UNCHANGED <<node_state, course_args, enhanced_search>>
    /\ UNCHANGED <<pvars, rvars>>

\* the outputs the stages before the summary may have stored
StoredOutputs ==
    [course_metadata : {EmptyDict, Single("title", X)},
     feedback : {EmptyDict, GoodArtifact},
     teams : BOOLEAN]

Filled(state, o) ==
    Obj(state.keys,
        [k \in DOMAIN state.map |->
            CASE k = "course_metadata" -> o.course_metadata
              [] k = "feedback" -> o.feedback
              [] k \in {TeamOutputKey(n) : n \in TeamNums} /\ o.teams ->
                     Single(TeamStage(CHOOSE n \in TeamNums : TeamOutputKey(n) = k),
                            GoodModules)
              [] OTHER -> state.map[k]])

\* the graph's last node runs on a state that holds the outputs
CourseSummary ==
    /\ node = "initialize"
    /\ node' = "summary"
    /\ \E o \in StoredOutputs :
         /\ node_state' = Filled(ApplyUpdate("enh", node_state, node_update.update), o)
         /\ \E r \in course_generator_summary(node_state') :
              node_update' = [exc |-> r.exc, update |-> r.update,
                              course_data |-> summary_course_data(node_state'),
                              content |-> r.content, file |-> r.file]
    /\ UNCHANGED <<course_args, enhanced_search>>
    /\ UNCHANGED <<pvars, rvars>>

\* what the generation model may answer to a node applied on its own: the answers
\* of a run, a list and a string
NodeReplies(s) ==
    StageReplies(s) \cup {Reply(Serialize(Arr(<<Num(1)>>))), Reply(Serialize(X))}

\* the outcomes of a model-calling node function on a state: its checks, the
\* generation reply parsed with at most one json_maker_bot call, and its return
NodeOutcomes(s, state) ==
    IF GraphStageBegin(s, state) # NoExc THEN {Failed(GraphStageBegin(s, state))}
    ELSE UNION {StageResult("enh", s, state,
                            Generate("enh", Invoke("enh", reply), repair).result) :
                   reply \in NodeReplies(s), repair \in RepairReplies(s)}

\* the state the creators leave: the team outputs and module contents stored, the
\* assessments and resources stored or still {}
Created(state, stored) ==
    Obj(state.keys,
        [k \in DOMAIN state.map |->
            CASE k \in {TeamOutputKey(n) : n \in TeamNums} ->
                     Single(TeamStage(CHOOSE n \in TeamNums : TeamOutputKey(n) = k),
                            GoodModules)
              [] k \in {"team1_module1", "team2_module1"} -> GoodArtifact
              [] k = "assessment_content" /\ stored -> Single(ModuleKey(3), GoodArtifact)
              [] k = "resources_content" /\ stored -> Single(ModuleKey(4), GoodArtifact)
              [] OTHER -> state.map[k]])

\* course_metadata_creator runs on a state that holds the creators' outputs
MetadataCreator ==
    /\ node = "initialize"
    /\ node' = "metadata_creator"
    /\ \E stored \in BOOLEAN :
         /\ node_state' = Created(ApplyUpdate("enh", node_state, node_update.update), stored)
         /\ \E o \in NodeOutcomes("metadata", node_state') :
              node_update' = [NoUpdate EXCEPT !.exc = o.exc, !.update = o.update]
    /\ UNCHANGED <<course_args, enhanced_search>>
    /\ UNCHANGED <<pvars, rvars>>

\* quality_reviewer runs on the state course_metadata_creator returned
QualityReviewer ==
    /\ node = "metadata_creator"
    /\ node_update.exc = NoExc
    /\ node' = "quality_review"
    /\ node_state' = ApplyUpdate("enh", node_state, node_update.update)
    /\ \E o \in NodeOutcomes("quality_review", node_state') :
         node_update' = [NoUpdate EXCEPT !.exc = o.exc, !.update = o.update]
    /\ UNCHANGED <<course_args, enhanced_search>>
    /\ UNCHANGED <<pvars, rvars>>

NextNode == InitializeState \/ CourseSummary \/ MetadataCreator \/ QualityReviewer

SpecNode == InitNode /\ [][NextNode]_vars


(***************************************************************************)
(* Properties of the pipeline (checked under Spec)                         *)
(***************************************************************************)
ErrorOutcome == IF file = "main" THEN job.status = "failed" ELSE invoke_result.kind = "raised"

SuccessOutcome ==
    IF file = "main" THEN job.status = "completed" ELSE invoke_result.kind = "returned"

\* the value a stage that returned got from parse_json and handed on
StageValue(s) ==
    LET u == pending[s]
        n == TeamNum(file, s)
    IN  CASE s = "manager"     -> u["manager_output"]
          [] Tier(s) = "teams" -> u[TeamOutputKey(n)].map[TeamStage(n)]
          [] s \in {"content1", "content2"} -> u[ModuleKey(n)]
          [] s = "assessment"  -> u["assessment_content"].map[ModuleKey(n)]
          [] s = "resources"   -> u["resources_content"].map[ModuleKey(n)]
          [] s = "metadata"    -> u[IF file = "main" THEN "metadata" ELSE "course_metadata"]
          [] s = "quality_review" -> u["feedback"]

\* C7: envelope unwrapping: whatever stage the model answers with an object nested
\* under "properties", the value the stage obtains is the inner value, never the
\* envelope.  (The code unwraps in generate_team_output only.)
EnvelopeUnwrapping ==
    \A s \in Stages :
        (CallsModel(s) /\ st[s] = "done") => "properties" \notin DOMAIN StageValue(s).map

Later(s, t) == TierRank(Tier(t)) > TierRank(Tier(s))

\* the exception of a failed stage can be handed to the caller now
AbortReady ==
    /\ \E s \in StagesOf(phase) : st[s] = "failed"
    /\ file = "main" => \A s \in StagesOf(phase) : Ended(s)

\* a stage of the current tier is in a model call or can be entered
TierBusy ==
    \E t \in StagesOf(phase) :
        \/ st[t] \in {"running", "repairing"}
        \/ st[t] = "idle" /\ \A u \in StagesOf(phase) : Order(u) < Order(t) => Ended(u)

\* C8: failure containment: once a stage has failed the run cannot succeed; until it
\* ends it stays in the failing stage's tier, where the failure can be handed to the
\* caller or the tier's other tasks are still running; when it has ended the outcome
\* is the error outcome; and no stage of a later tier is ever entered (its model-call
\* counts stay 0).
FailureContainment ==
    \A s \in Stages : st[s] = "failed" =>
        /\ ~SuccessOutcome
        /\ phase = "finished" => ErrorOutcome
        /\ phase # "finished" => phase = Tier(s) /\ (AbortReady \/ TierBusy)
        /\ \A t \in Stages :
              Later(s, t) => st[t] = "idle" /\ modelCalls[t] = 0 /\ repairCalls[t] = 0

\* C8 witness: the graph run raised after team 2 failed while team 1 had called the
\* model, and the content stage behind team 1 was never entered
FailureContainmentWitness ==
    /\ file = "enh" /\ phase = "finished" /\ ErrorOutcome
    /\ st["team2"] = "failed" /\ modelCalls["team1"] = 1
    /\ st["content1"] = "idle" /\ modelCalls["content1"] = 0

NonEmptyAll(v) == Truthy(v) /\ \A k \in DOMAIN v.map : Truthy(v.map[k])

\* the parts of the document a successful run hands over
DocumentPopulated ==
    IF file = "main"
    THEN LET d == job.course_data IN
         /\ \A k \in {"metadata", "team1_module1", "team2_module1"} :
               Truthy(Get(d, k, EmptyDict))
         /\ \A n \in TeamNums :
               Truthy(Get(Get(d, TeamOutputKey(n), EmptyDict), TeamStage(n), EmptyDict))
         /\ NonEmptyAll(Get(d, "assessment_content", EmptyDict))
         /\ NonEmptyAll(Get(d, "resources_content", EmptyDict))
    ELSE LET d == invoke_result.doc IN
         /\ Truthy(d.map["metadata"])
         /\ \A n \in TeamNums :
               Truthy(Get(Get(d.map["modules"], TeamOutputKey(n), EmptyDict),
                          TeamStage(n), EmptyDict))
         /\ \A k \in {"team1_module1", "team2_module1"} :
               Truthy(Get(d.map["content"], k, EmptyDict))
         /\ NonEmptyAll(d.map["assessments"])
         /\ NonEmptyAll(d.map["resources"])

\* C9: no half-populated success: a run that ends in the success outcome hands over
\* non-empty metadata, four non-empty team outputs, two non-empty content documents,
\* a non-empty assessment set and a non-empty resource set.
NoHalfPopulatedSuccess == SuccessOutcome => DocumentPopulated

\* what the caller of the run sees of the failure
SurfacedError == IF file = "main" THEN job.current_stage ELSE invoke_result.exc.msg

\* the error texts of the pipeline that name the stage they come from
StageMessages(s) ==
    LET n == Digit(TeamNum(file, s)) IN
    CASE Tier(s) = "teams" ->
             {"Missing task_" \o n \o " or detail_" \o n \o " in manager response"}
      [] Tier(s) = "artifacts" ->
             {"Missing output from team" \o n,
              "Missing module information for team" \o n \o ", module 1"}
      [] OTHER -> {}

\* C10: when a stage fails, the error outcome the caller gets names the stage that
\* failed (and carries the cause).
ErrorIdentifiesStage ==
    ErrorOutcome =>
        \E s \in Stages :
            /\ st[s] = "failed"
            /\ \E m \in StageMessages(s) : SurfacedError \in {m, "Error: " \o m}

\* the value under a key of the run state, None when the key was never written
Stored(k) == Get(run_state, k, NoneV)

\* C11: plan before teams: a team stage has issued its model call only if the manager
\* stage returned before, the run has left the manager tier, and the manager's plan
\* is the value stored under manager_output in the run state.
PlanBeforeTeams ==
    \A n \in TeamNums : modelCalls[TeamStage(n)] > 0 =>
        /\ st["manager"] = "done"
        /\ TierRank(phase) > TierRank("manager")
        /\ Stored("manager_output") = StageValue("manager")

\* C11 witness: team 3 of a main.py run is in its model call, after the manager
\* needed a repair call to return its plan
PlanBeforeTeamsWitness ==
    /\ file = "main" /\ st["team3"] = "running" /\ modelCalls["team3"] = 1
    /\ repairCalls["manager"] = 1 /\ Stored("manager_output") = GoodPlan

\* what team n handed on, as the metadata stage is given it
TeamOutputOf(n) == Get(Stored(TeamOutputKey(n)), TeamStage(n), EmptyDict)

\* C12: metadata precondition: the metadata stage has issued its model call only in
\* a run state where each of the four team outputs is present and non-empty.  (The
\* code hands the team outputs to the prompt without looking at them.)
MetadataPrecondition ==
    modelCalls["metadata"] > 0 => \A n \in TeamNums : Truthy(TeamOutputOf(n))

\* the tier whose fields the stages of tier t read
Producer(t) == CASE t = "teams" -> "manager" [] t = "artifacts" -> "teams"
                 [] t = "metadata" -> "artifacts"
                 [] t = "quality_review" -> "metadata"
                 [] t = "course_summary" -> "quality_review"

\* the fields stage s returned are in the run state, with the values it returned
Written(s) ==
    \A k \in DOMAIN pending[s] :
        (file = "main" \/ k \in StateKeys) => Stored(k) = pending[s][k]

\* C13: join barrier: a module-artifact stage has been entered only when all four
\* team stages have returned, and the metadata stage only when all four artifact
\* stages have returned; and while a stage that has been entered is in its tier,
\* every field of the producing tier is in the run state with the value its stage
\* returned (nothing is read while the producing tier is still running).
JoinBarrier ==
    \A s \in Stages : (st[s] # "idle" /\ Tier(s) # "manager") =>
        \A t \in StagesOf(Producer(Tier(s))) :
            /\ st[t] = "done"
            /\ phase = Tier(s) => Written(t)

\* C13 witness: the metadata stage of main.py is in its model call after the four
\* artifact stages returned, one of them through a repair call
JoinBarrierWitness ==
    /\ file = "main" /\ st["metadata"] = "running"
    /\ \A s \in StagesOf("artifacts") : st[s] = "done"
    /\ repairCalls["assessment"] = 1

\* a part of what a successful run hands to its caller
Delivered(main_key, doc_key) ==
    IF file = "main" THEN Get(job.course_data, main_key, EmptyDict)
    ELSE invoke_result.doc.map[doc_key]

\* C14: progress to the terminal state: a run in which every model call returned the
\* valid, non-empty object of its schema (no deviating reply, no repair call) and
\* that has ended, ended in success after the metadata stage ran, with course
\* metadata and feedback both populated.  (The graph ends before its metadata,
\* feedback and summary nodes; main.py has no feedback or summary stage.)
ProgressToSummarized ==
    (phase = "finished" /\ faults = 0) =>
        /\ SuccessOutcome
        /\ \A s \in StagesIn(file) : st[s] = "done"
        /\ Truthy(Delivered("metadata", "metadata"))
        /\ Truthy(Delivered("feedback", "feedback"))

\* the module listing of team n as a creator stage reads it (an envelope opened)
ModulesOf(n) ==
    LET inner == Get(TeamOutputOf(n), "properties", NoneV)
    IN  IF Truthy(inner) THEN inner ELSE TeamOutputOf(n)

StubKeys(k) == {"module_" \o Digit(k), "description_" \o Digit(k),
                "learning_objectives_" \o Digit(k)}

\* C15: module-stub precondition: a content, assessment or resource stage has issued
\* its model call only if the output of its team carries all three module stubs
\* (title, description and objectives of modules 1, 2 and 3, each non-empty).  (The
\* graph's creators test the title and description of module 1 only; main.py tests
\* nothing.)
ModuleStubPrecondition ==
    \A s \in StagesOf("artifacts") : modelCalls[s] > 0 =>
        \A k \in 1..3 : \A key \in StubKeys(k) :
            Truthy(Get(ModulesOf(TeamNum(file, s)), key, NoneV))

\* the manager's plan as a team stage reads it (an envelope opened)
Plan ==
    LET inner == Get(Stored("manager_output"), "properties", NoneV)
    IN  IF Truthy(inner) THEN inner ELSE Stored("manager_output")

PlanHas(n) ==
    /\ Truthy(Get(Plan, "task_" \o Digit(n), NoneV))
    /\ Truthy(Get(Plan, "detail_" \o Digit(n), NoneV))

\* C16: the plan is consumed with a precondition check: a team stage that was entered
\* while the plan lacks its task description or task detail (absent or empty) has
\* failed with the missing-precondition error and has issued no model call.  (The
\* team stage of main.py never reads the plan.)
PlanPrecondition ==
    \A n \in TeamNums :
        (st[TeamStage(n)] # "idle" /\ ~PlanHas(n)) =>
            /\ st[TeamStage(n)] = "failed"
            /\ stage_exc[TeamStage(n)].type = "ValueError"
            /\ modelCalls[TeamStage(n)] = 0

\* the stage was refused by its own input check, before any model call
Refused(s) ==
    /\ st[s] = "failed"
    /\ StageBegin(file, s, run_state) # NoExc
    /\ stage_exc[s] = StageBegin(file, s, run_state)

\* C17: model-call budget per stage: a model-calling stage that was entered made
\* exactly one generation call and at most one repair call, 1 or 2 model calls in
\* all, whether it returned, raised or is still in one of the two calls; it made
\* no call at all only if its input check refused it.
ModelCallBudget ==
    \A s \in Stages : CallsModel(s) =>
        /\ st[s] = "idle" => modelCalls[s] = 0 /\ repairCalls[s] = 0
        /\ st[s] # "idle" =>
              \/ modelCalls[s] = 1 /\ repairCalls[s] \in {0, 1}
              \/ modelCalls[s] = 0 /\ repairCalls[s] = 0 /\ Refused(s)
        /\ st[s] = "running" => repairCalls[s] = 0
        /\ st[s] = "repairing" => modelCalls[s] = 1 /\ repairCalls[s] = 1

\* C17 witness: a stage raised after two model calls (generation and repair) while
\* another stage of the run returned after two
ModelCallBudgetWitness ==
    \E s, t \in Stages :
        /\ st[s] = "failed" /\ modelCalls[s] = 1 /\ repairCalls[s] = 1
        /\ st[t] = "done" /\ modelCalls[t] = 1 /\ repairCalls[t] = 1

\* C18: no stage-level retry: in every step of a run, a stage that has been entered
\* is never entered again (it does not go back to idle and issues no further
\* generation call), and a stage that returned or raised keeps its outcome and its
\* call counts for the rest of the run: a failed stage is not re-invoked and the
\* manager is not re-run after a later failure.
NoStageRetry ==
    [][\A s \in Stages :
          /\ st[s] # "idle" => st'[s] # "idle" /\ modelCalls'[s] = modelCalls[s]
          /\ Ended(s) => /\ st'[s] = st[s]
                         /\ stage_exc'[s] = stage_exc[s]
                         /\ repairCalls'[s] = repairCalls[s]]_vars

\* C18 witness: a graph run has ended in the error of team 1, which made its one
\* generation call, while the manager before it was run once
NoStageRetryWitness ==
    /\ file = "enh" /\ phase = "finished"
    /\ st["team1"] = "failed" /\ modelCalls["team1"] = 1
    /\ st["manager"] = "done" /\ modelCalls["manager"] = 1

\* the artifact fields of the run state (main.py stores the metadata under "metadata")
ArtifactFields == StateKeys \cup {"metadata"}

\* C19: write-once artifacts: in every step of a run, an artifact field of the run
\* state that holds a non-empty value holds the same value after the step.
WriteOnce ==
    [][\A k \in ArtifactFields : Truthy(Stored(k)) => Stored(k)' = Stored(k)]_vars

\* C19 witness: the graph's creators have returned and their updates, which carry
\* team_output_1..3 again, are stored: the team listings are what the team leaders
\* wrote, next to the new content
WriteOnceWitness ==
    /\ file = "enh" /\ phase = "end"
    /\ Truthy(Stored("team1_module1")) /\ Truthy(Stored("assessment_content"))
    /\ \A n \in 1..3 : /\ TeamOutputKey(n) \in DOMAIN pending[TeamStage(n)]
                        /\ Truthy(Stored(TeamOutputKey(n)))
                        /\ Stored(TeamOutputKey(n)) = pending[TeamStage(n)][TeamOutputKey(n)]

\* two stages of one fan-out tier that have both returned their updates
Siblings(s1, s2) ==
    /\ s1 # s2 /\ Tier(s1) = Tier(s2) /\ Tier(s1) \in {"teams", "artifacts"}
    /\ st[s1] = "done" /\ st[s2] = "done"

\* C20 as stated: no key of the update returned by one stage of a fan-out tier is a
\* key of the update returned by another stage of that tier.  (Every node of the
\* graph returns the "messages" key.)
DisjointWriters ==
    \A s1, s2 \in Stages :
        Siblings(s1, s2) => DOMAIN pending[s1] \cap DOMAIN pending[s2] = {}

\* C20 amended: the only key two stages of one fan-out tier both return is the
\* messages log, which is merged by its reducer; on every other field the writers
\* are disjoint.
DisjointArtifactWriters ==
    \A s1, s2 \in Stages :
        Siblings(s1, s2) => DOMAIN pending[s1] \cap DOMAIN pending[s2] \subseteq {"messages"}

\* C20 witness: the graph's content creator of team 1 and its assessment creator have
\* both returned, each with its own team listing and artifact field and with the log
DisjointArtifactWritersWitness ==
    /\ file = "enh" /\ Siblings("content1", "assessment")
    /\ DOMAIN pending["content1"] = {"messages", "team_output_1", "team1_module1"}
    /\ DOMAIN pending["assessment"] = {"messages", "team_output_3", "assessment_content"}

\* C21: non-blocking fan-out: while a stage of a fan-out tier awaits its model
\* response, a stage of the same tier that has not been entered yet can be entered
\* and issue its own model call (so that two model calls of one tier are in flight
\* at the same time).
NonBlockingFanOut ==
    \A s, t \in Stages :
        (/\ s # t /\ Tier(s) = Tier(t) /\ phase = Tier(s)
         /\ st[s] \in {"running", "repairing"} /\ st[t] = "idle")
            => ENABLED StageStart(t)

\* the generation parameters as the initialize node wrote them to the run state
Identity(state) == [k \in IdentityKeys |-> Get(state, k, NoneV)]

\* C22: immutable identity: after the initialize node, course_topic,
\* difficulty_level, target_audience and learning_goals of the run state keep the
\* values the node gave them, through every later stage until the run ends.
ImmutableIdentity ==
    [][file = "enh" => Identity(run_state') = Identity(run_state)]_vars

\* C22 witness: the course manager, which returns every channel, has returned and
\* its update is stored; three team leaders have returned as well
ImmutableIdentityWitness ==
    /\ file = "enh" /\ phase = "teams" /\ Truthy(Stored("manager_output"))
    /\ Cardinality({s \in StagesOf("teams") : st[s] = "done"}) = 3
    /\ Identity(run_state)["course_topic"] = Str(RunArgs.course_topic)
    /\ Identity(run_state)["learning_goals"] = Arr(<<Str(<<"g">>)>>)

\* a stage of the module-artifact tier returned a content document for module 1 of
\* team n
ContentDocumentFrom(s, n) ==
    s \in StagesOf("artifacts") /\ st[s] = "done" /\ ModuleKey(n) \in DOMAIN pending[s]

ContentTeams == {n \in TeamNums : \E s \in Stages : ContentDocumentFrom(s, n)}

\* the modules a returned assessment or resources stage covers
Covered(s, k) == IF st[s] = "done" THEN DOMAIN pending[s][k].map ELSE {}

ArtifactsDone == \A s \in StagesOf("artifacts") : st[s] = "done"

\* C23 as stated: sampling policy: once the module-artifact tier has returned, it
\* has generated a content document for module 1 of each of the four teams (and the
\* assessment set and the resource set for one team's module 1 only).
SamplingEachTeam ==
    ArtifactsDone =>
        /\ ContentTeams = TeamNums
        /\ \E n \in TeamNums : Covered("assessment", "assessment_content") = {ModuleKey(n)}
        /\ \E n \in TeamNums : Covered("resources", "resources_content") = {ModuleKey(n)}

\* C23 amended: once the module-artifact tier has returned, it has generated a
\* content document for module 1 of team 1 and of team 2 and of no other team,
\* each from one stage, and the assessment set and the resource set each cover
\* module 1 of a single team.
SamplingPolicy ==
    ArtifactsDone =>
        /\ ContentTeams = {1, 2}
        /\ \A n \in ContentTeams :
               Cardinality({s \in Stages : ContentDocumentFrom(s, n)}) = 1
        /\ \E n \in TeamNums : Covered("assessment", "assessment_content") = {ModuleKey(n)}
        /\ \E n \in TeamNums : Covered("resources", "resources_content") = {ModuleKey(n)}

\* C23 witness: a graph run whose four creators returned and whose state holds the
\* content document of team 2 and the assessment set of team 3
SamplingPolicyWitness ==
    /\ file = "enh" /\ ArtifactsDone /\ phase = "finished"
    /\ Truthy(Stored("team2_module1"))
    /\ DOMAIN Stored("assessment_content").map = {ModuleKey(3)}

\* C24: the insight provider is optional: whether the web search is disabled,
\* returns no results or fails (search error, page-fetch error, insight-extraction
\* or parse error for any result), the run is not aborted by it: a job fails only
\* after the manager stage was invoked, the manager stage can be entered once the
\* search step is over, and the insights it is given are a list (possibly empty).
\* (That such a run can reach 'completed' is shown by the witness.)
InsightProviderOptional ==
    /\ job.status = "failed" => modelCalls["manager"] = 1
    /\ phase \in {"search", "searching"} => job.status = "in_progress"
    /\ (phase = "manager" /\ st["manager"] = "idle") => ENABLED StageStart("manager")
    /\ TierRank(phase) >= TierRank("manager") => search_insights(run_state).t = "list"

\* C24 witness: the search returned one result, no insight could be extracted from
\* it, and the job completed with an empty insights list
InsightProviderOptionalWitness ==
    /\ enhanced_search /\ job.status = "completed" /\ faults >= 1
    /\ Len(Stored("search_results").map["results"].kids) = 1
    /\ search_insights(run_state) = Arr(<<>>)

\* C25: job record state machine (main.py): during generate_course_async the job's
\* progress never decreases, its status changes only from 'in_progress' to
\* 'completed' or 'failed' and never afterwards, and when the function has returned
\* the status is 'completed' if and only if the progress is 100.
JobStateMachine ==
    /\ [][/\ job'.progress >= job.progress
          /\ job'.status # job.status =>
                 job.status = "in_progress" /\ job'.status \in {"completed", "failed"}]_vars
    /\ [](phase = "finished" => (job.status = "completed" <=> job.progress = 100))

\* C25 witness: a job with the web search enabled went through 10, 20, 30, 40 and
\* failed at progress 70, when the second content stage raised
JobStateMachineWitness ==
    /\ enhanced_search /\ phase = "finished" /\ job.status = "failed" /\ job.progress = 70
    /\ st["content2"] = "failed" /\ st["resources"] = "done"

\* the keys of a whole course document
WholeKeys == {"manager_output", "team_output_1", "team_output_2", "team_output_3",
              "team_output_4", "team1_module1", "team2_module1", "assessment_content",
              "resources_content", "metadata"}

\* C26: completed implies persisted and whole (main.py): a job is 'completed' only
\* after the course document has been saved to its file (a whole document is in
\* the file, and it is what json.dump writes of the record's course_data as long
\* as no edit page has changed it); the job's course_data is non-empty only for
\* a completed job, and then it has every key of a whole course; a failed job's
\* course_data is empty.
CompletedPersistedWhole ==
    /\ job.status = "completed" =>
           /\ saved_course.t = "dict" /\ WholeKeys \subseteq DOMAIN saved_course.map
           /\ edits = 0 => saved_course = AsJson(job.course_data)
           /\ WholeKeys \subseteq DOMAIN job.course_data.map
    /\ Truthy(job.course_data) => job.status = "completed"
    /\ job.status = "failed" => job.course_data = EmptyDict

\* C26 witness: a job failed because the file could not be written, with every stage
\* returned, and its record has no course data
CompletedPersistedWholeWitness ==
    /\ job.status = "failed" /\ \A s \in StagesIn(file) : st[s] = "done"
    /\ WholeKeys \subseteq DOMAIN run_state.map /\ job.course_data = EmptyDict
    /\ saved_course = NoneV

\* what the stage of team n returned as its team output
Produced(n) == pending[TeamStage(n)][TeamOutputKey(n)]

\* C27: the returned document reflects the run: on a successful run of the graph
\* pipeline the document returned by generate_expert_course carries under 'modules'
\* the four team outputs and under 'content' the content documents generated during
\* the run, and neither is empty.
ReturnedDocumentReflectsRun ==
    (file = "enh" /\ invoke_result.kind = "returned") =>
        /\ Truthy(invoke_result.doc.map["modules"])
        /\ Truthy(invoke_result.doc.map["content"])
        /\ \A n \in TeamNums :
               Get(invoke_result.doc.map["modules"], TeamOutputKey(n), NoneV) = Produced(n)
        /\ \A n \in {1, 2} :
               Get(invoke_result.doc.map["content"], ModuleKey(n), NoneV)
                   = pending[CHOOSE s \in {"content1", "content2"} : TeamNum("enh", s) = n]
                            [ModuleKey(n)]

\* C28: team-indexed assembly: in the team_outputs mapping that generate_expert_course
\* builds from the final state (by the same expression as course_generator_summary),
\* the entry under team_output_i holds the output produced by team i's stage, for
\* every i in 1..4.
TeamIndexedAssembly ==
    (file = "enh" /\ invoke_result.kind = "returned") =>
        \A n \in TeamNums :
            invoke_result.team_outputs.map[TeamOutputKey(n)] = Produced(n)

\* the arguments of generate_expert_course as values of the run state
Passed(args) ==
    [k \in IdentityKeys |->
        CASE k = "course_topic" -> Str(args.course_topic)
          [] k = "difficulty_level" -> Str(args.difficulty)
          [] k = "target_audience" -> Str(args.target_audience)
          [] k = "learning_goals" ->
                 Arr([i \in 1..Len(args.learning_goals) |-> Str(args.learning_goals[i])])]

\* C29: parameter round-trip through the input message: for every topic, difficulty,
\* audience and goal list passed to generate_expert_course, the values that
\* initialize_state writes to the run state equal the values passed in, topics that
\* contain 'for', 'with' or a period and goals that contain a comma included.
ParameterRoundTrip ==
    node = "initialize" =>
        \A k \in IdentityKeys : node_update.update[k] = Passed(course_args)[k]

\* the state the summary node leaves behind
AfterSummary == ApplyUpdate("enh", node_state, node_update.update)

\* C30: the summary is recorded: the update course_generator_summary returns has the
\* summary text as the last entry of its messages log and every other field as it
\* was in the state, so that the conversation handed back to the caller ends with
\* the summary.
SummaryRecorded ==
    (node = "summary" /\ node_update.exc = NoExc) =>
        /\ LET log == node_update.update["messages"].kids
           IN  log # <<>> /\ log[Len(log)].s = node_update.content
        /\ \A k \in DOMAIN node_state.map \ {"messages"} :
               node_update.update[k] = node_state.map[k]
        /\ LET conversation == messages_list(AfterSummary).kids
           IN  conversation[Len(conversation)] = Str(node_update.content)

====
